---- MODULE Spec2Model ----
(***************************************************************************)
(* Model of the adventure (story-tree) lifecycle of aiadventure_api:       *)
(* the ownership check, the adventure request handlers of                  *)
(* app/routers/adventure.py and the store operations of app/database.py.   *)
(* Each request handler is one action; the document store, the story       *)
(* generator, the image generator and the object storage are external      *)
(* collaborators whose answers are chosen nondeterministically.            *)
(***************************************************************************)
EXTENDS Integers, Sequences, FiniteSets, TLC

VARIABLES adventures, users, api_keys, thumbs, issued, lineage, resp, now, calls

vars == <<adventures, users, api_keys, thumbs, issued, lineage, resp, now, calls>>

(***************************************************************************)
(* Bounds of the model.                                                    *)
(***************************************************************************)
MaxNodes == 3

(***************************************************************************)
(* Python's Optional values: None is the empty set, a present value v is   *)
(* the singleton {v}.                                                      *)
(***************************************************************************)
None == {}
Some(v) == {v}
Get(o) == CHOOSE v \in o : TRUE

Min(a, b) == IF a < b THEN a ELSE b

(***************************************************************************)
(* Python list indexing: 0-based, a negative index counts from the end,    *)
(* anything else raises IndexError.                                        *)
(***************************************************************************)
PyInRange(seq, i) == -Len(seq) <= i /\ i < Len(seq)
PyAt(seq, i) == IF i >= 0 THEN seq[i + 1] ELSE seq[Len(seq) + i + 1]

(***************************************************************************)
(* Identities, tokens and ids.                                             *)
(***************************************************************************)
UserIds == {"u1", "u2", "adm"}
Tokens == [sub : UserIds, ok : {TRUE}] \cup {[sub |-> "u1", ok |-> FALSE]}
AdvIds == {"a1", "a2", "a3"}
MalformedId == "zz"

Texts == {"t1"}
OptionLists == {<< >>, <<"oa", "ob">>}
GenFail == [failed |-> TRUE]
GenResults == {GenFail} \cup [failed : {FALSE}, text : Texts, options : OptionLists]

NoImage == [base |-> "", ext |-> ""]
ImageKeys == [base : {"k1", "k2"}, ext : {".jpg"}] \cup {[base |-> "k1", ext |-> ".png"]}

(***************************************************************************)
(* API keys.  A key is the prefix "ak_" followed by a random secret; the   *)
(* store keeps the SHA-256 digest of the key, never the key.  expires_at   *)
(* and last_used are readings of the clock now (datetime.utcnow()).        *)
(***************************************************************************)
KeyIds == {"k1", "k2"}
Secrets == {"s1", "s2", "s9"}
sha256(api_key) == [digest_of |-> api_key]
ApiKey(secret) == [prefix |-> "ak_", secret |-> secret]
KeyDoc(name, secret, expires_at, is_active) ==
    [name |-> name, key_hash |-> sha256(ApiKey(secret)), scopes |-> {"read"},
     expires_at |-> expires_at, created_at |-> now, is_active |-> is_active,
     last_used |-> None]
InitialKeys == [k \in {"k1"} |-> KeyDoc("n1", "s1", None, TRUE)]

RootNode(opts) ==
    [prev_option_index |-> None, prev_option_text |-> None,
     text |-> "t0", options |-> opts]

(***************************************************************************)
(* app/services/user_service.py                                            *)
(***************************************************************************)
decode_access_token(token) ==
    IF token.ok THEN Some(token.sub) ELSE None

ObjectId_is_valid(id) == id # MalformedId

(***************************************************************************)
(* StoreDown stands for a user collection whose find_one raises:           *)
(* get_user_by_id catches every exception and returns None.                *)
(***************************************************************************)
StoreDown == [down |-> TRUE]

get_user_by_id(us, user_id) ==
    IF us = StoreDown THEN None
    ELSE IF ObjectId_is_valid(user_id) /\ user_id \in DOMAIN us
    THEN Some(us[user_id]) ELSE None

get_user_by_email(us, email) ==
    LET found == {u \in DOMAIN us : us[u].email = email}
    IN  IF found = {} THEN None ELSE Some(us[CHOOSE u \in found : TRUE])

is_user_admin_ignore_case(us, user_id) ==
    LET user == get_user_by_id(us, user_id)
    IN  /\ user # None
        /\ "role" \in DOMAIN Get(user)
        /\ Get(user).role \in {"admin", "Admin"}

is_user_admin(us, user_id) ==
    LET user == get_user_by_id(us, user_id)
    IN  /\ user # None
        /\ "role" \in DOMAIN Get(user)
        /\ Get(user).role = "admin"

(***************************************************************************)
(* register_user: the store with the new user, or None when a user with    *)
(* that email exists (HTTPException 409).                                  *)
(***************************************************************************)
register_user(us, new_id, email, role) ==
    IF get_user_by_email(us, email) # None THEN None
    ELSE Some([u \in DOMAIN us \cup {new_id} |->
                 IF u = new_id THEN [email |-> email, role |-> role] ELSE us[u]])

(***************************************************************************)
(* The names module app.services.user_service defines or imports.          *)
(***************************************************************************)
UserServiceNames_with_delete_user ==
    {"create_user", "get_user_by_email", "get_user_by_id", "hash_password",
     "verify_password", "get_user_object", "get_current_user", "register_user",
     "is_user_admin", "get_user_role", "login", "create_access_token",
     "decode_access_token", "delete_user"}

UserServiceNames ==
    {"create_user", "get_user_by_email", "get_user_by_id", "hash_password",
     "verify_password", "get_user_object", "get_current_user", "register_user",
     "is_user_admin", "get_user_role", "login", "create_access_token",
     "decode_access_token"}

InitialUsers ==
    [u \in UserIds |-> [email |-> u \o "@x",
                        role |-> IF u = "adm" THEN "admin" ELSE "user"]]

(***************************************************************************)
(* app/database.py                                                         *)
(***************************************************************************)
get_adventure_by_id(store, adventure_id) ==
    IF ObjectId_is_valid(adventure_id) /\ adventure_id \in DOMAIN store
    THEN Some(store[adventure_id]) ELSE None

update_adventure_nodes(store, adventure_id, data) ==
    IF ObjectId_is_valid(adventure_id) /\ adventure_id \in DOMAIN store
    THEN [store EXCEPT ![adventure_id].nodes = Append(@, data)]
    ELSE store

delete_adventure_unset_nodes(store, adventure_id) ==
    IF ObjectId_is_valid(adventure_id) /\ adventure_id \in DOMAIN store
    THEN [store EXCEPT ![adventure_id].nodes = << >>]
    ELSE store

delete_adventure(store, adventure_id) ==
    IF ObjectId_is_valid(adventure_id)
    THEN [id \in DOMAIN store \ {adventure_id} |-> store[id]]
    ELSE store

get_all_adventures_owner_only(store, owner_id) ==
    {id \in DOMAIN store : store[id].owner_id = owner_id}

(***************************************************************************)
(* find({"$or": [{"owner_id": owner_id}, {"is_public": True}]}): the ids   *)
(* of the matching documents.                                              *)
(***************************************************************************)
get_all_adventures(store, owner_id) ==
    {id \in DOMAIN store : store[id].owner_id = owner_id \/ store[id].is_public}

(***************************************************************************)
(* create_adventure calls insert_one on the name adventure_collection,     *)
(* which is not a name of module app.database: looking it up raises        *)
(* NameError (None here), and nothing is inserted.                         *)
(***************************************************************************)
DatabaseModuleNames ==
    {"client", "db", "get_user_collection", "get_user_by_id", "get_user_by_email",
     "create_user", "get_adventure_collection", "get_api_key_collection",
     "get_all_adventures", "get_adventure_by_id", "create_adventure",
     "update_adventure_nodes", "get_node_collection", "get_node_by_id",
     "get_node_by_level", "delete_adventure", "truncate_adventure"}

create_adventure(store, new_id, adventure) ==
    IF "adventure_collection" \in DatabaseModuleNames
    THEN Some([id \in DOMAIN store \cup {new_id} |->
                 IF id = new_id THEN adventure ELSE store[id]])
    ELSE None

truncate_adventure_inclusive(store, adventure_id, node_index) ==
    IF ~ObjectId_is_valid(adventure_id) THEN store
    ELSE IF node_index < 0 THEN store
    ELSE LET doc == get_adventure_by_id(store, adventure_id)
         IN  IF doc # None
             THEN [store EXCEPT ![adventure_id].nodes =
                       SubSeq(@, 1, Min(node_index + 1, Len(@)))]
             ELSE store

truncate_adventure(store, adventure_id, node_index) ==
    IF ~ObjectId_is_valid(adventure_id) THEN store
    ELSE IF node_index < 0 THEN store
    ELSE LET doc == get_adventure_by_id(store, adventure_id)
         IN  IF doc # None
             THEN [store EXCEPT ![adventure_id].nodes =
                       SubSeq(@, 1, Min(node_index, Len(@)))]
             ELSE store

(***************************************************************************)
(* app/services/adventure_service.py                                       *)
(***************************************************************************)
get_adventure_for_user_owner_only(store, us, adventure_id, user_id) ==
    LET adventure == get_adventure_by_id(store, adventure_id)
    IN  IF adventure = None THEN [code |-> 404, doc |-> None]
        ELSE IF is_user_admin(us, user_id) THEN [code |-> 200, doc |-> adventure]
        ELSE IF Get(adventure).owner_id # user_id
             THEN [code |-> 401, doc |-> None]
        ELSE [code |-> 200, doc |-> adventure]

get_adventure_for_user(store, us, adventure_id, user_id) ==
    LET adventure == get_adventure_by_id(store, adventure_id)
    IN  IF adventure = None THEN [code |-> 404, doc |-> None]
        ELSE IF is_user_admin(us, user_id) THEN [code |-> 200, doc |-> adventure]
        ELSE IF (~Get(adventure).is_public) /\ Get(adventure).owner_id # user_id
             THEN [code |-> 401, doc |-> None]
        ELSE [code |-> 200, doc |-> adventure]

generate_new_node_first_option(store, adventure_id, node_id, selected_option, gen) ==
    LET adventure == get_adventure_by_id(store, adventure_id)
    IN  IF adventure = None THEN None
        ELSE IF ~PyInRange(Get(adventure).nodes, node_id) THEN None
        ELSE IF ~PyInRange(PyAt(Get(adventure).nodes, node_id).options, selected_option)
        THEN None
        ELSE IF gen = GenFail THEN None
        ELSE LET selected_option_text ==
                     PyAt(PyAt(Get(adventure).nodes, node_id).options, 0)
             IN  Some([text |-> gen.text, options |-> gen.options,
                       prev_option_text |-> Some(selected_option_text)])

generate_new_node_swallow(store, adventure_id, node_id, selected_option, gen) ==
    LET adventure == get_adventure_by_id(store, adventure_id)
    IN  IF adventure = None THEN None
        ELSE IF ~PyInRange(Get(adventure).nodes, node_id) THEN None
        ELSE IF ~PyInRange(PyAt(Get(adventure).nodes, node_id).options, selected_option)
        THEN None
        ELSE LET selected_option_text ==
                     PyAt(PyAt(Get(adventure).nodes, node_id).options, selected_option)
             IN  IF gen = GenFail
                 THEN Some([text |-> "", options |-> << >>,
                            prev_option_text |-> Some(selected_option_text)])
                 ELSE Some([text |-> gen.text, options |-> gen.options,
                            prev_option_text |-> Some(selected_option_text)])

(***************************************************************************)
(* generate_new_node returns the new node, or None when it raises (the     *)
(* adventure is gone, an index is out of range, or the generator failed).  *)
(***************************************************************************)
generate_new_node(store, adventure_id, node_id, selected_option, gen) ==
    LET adventure == get_adventure_by_id(store, adventure_id)
    IN  IF adventure = None THEN None
        ELSE IF ~PyInRange(Get(adventure).nodes, node_id) THEN None
        ELSE IF ~PyInRange(PyAt(Get(adventure).nodes, node_id).options, selected_option)
        THEN None
        ELSE IF gen = GenFail THEN None
        ELSE LET selected_option_text ==
                     PyAt(PyAt(Get(adventure).nodes, node_id).options, selected_option)
             IN  Some([text |-> gen.text, options |-> gen.options,
                       prev_option_text |-> Some(selected_option_text)])

(***************************************************************************)
(* fetch_adventures projects every matching document to its summary; the   *)
(* summary has the node count and no node.  (The result is a list in       *)
(* cursor order; the order is not modelled.)                               *)
(***************************************************************************)
fetch_adventures(store, owner_id) ==
    {[id |-> id, title |-> store[id].title, numNodes |-> Len(store[id].nodes)] :
        id \in get_all_adventures(store, owner_id)}

cloned_node(node) ==
    [prev_option_index |-> node.prev_option_index,
     prev_option_text |-> node.prev_option_text,
     text |-> node.text, options |-> node.options]

RECURSIVE clone_nodes(_, _, _)
clone_nodes(store, new_id, nodes) ==
    IF nodes = << >> THEN store
    ELSE clone_nodes(update_adventure_nodes(store, new_id, cloned_node(Head(nodes))),
                     new_id, Tail(nodes))

(***************************************************************************)
(* app/services/api_key_service.py: verify_api_key.  raised is the         *)
(* message of the exception it raises (None: it returned info), keys the   *)
(* key store it leaves (last_used is set on success).                      *)
(***************************************************************************)
KeyFail(keys, message) == [raised |-> Some(message), info |-> None, keys |-> keys]

verify_api_key_inactive_as_invalid(keys, api_key) ==
    IF api_key.prefix # "ak_" THEN KeyFail(keys, "Invalid API key format")
    ELSE LET found == {k \in DOMAIN keys : keys[k].key_hash = sha256(api_key)}
         IN  IF found = {} THEN KeyFail(keys, "Invalid API key")
             ELSE LET id == CHOOSE k \in found : TRUE
                      key_data == keys[id]
                  IN  IF ~key_data.is_active
                      THEN KeyFail(keys, "Invalid API key")
                      ELSE IF key_data.expires_at # None
                              /\ Get(key_data.expires_at) < now
                      THEN KeyFail(keys, "API key expired")
                      ELSE [raised |-> None,
                            info |-> Some([key_id |-> id, name |-> key_data.name,
                                           scopes |-> key_data.scopes,
                                           created_at |-> key_data.created_at,
                                           expires_at |-> key_data.expires_at]),
                            keys |-> [keys EXCEPT ![id].last_used = Some(now)]]

verify_api_key(keys, api_key) ==
    IF api_key.prefix # "ak_" THEN KeyFail(keys, "Invalid API key format")
    ELSE LET found == {k \in DOMAIN keys : keys[k].key_hash = sha256(api_key)}
         IN  IF found = {} THEN KeyFail(keys, "Invalid API key")
             ELSE LET id == CHOOSE k \in found : TRUE
                      key_data == keys[id]
                  IN  IF ~key_data.is_active
                      THEN KeyFail(keys, "API key is inactive")
                      ELSE IF key_data.expires_at # None
                              /\ Get(key_data.expires_at) < now
                      THEN KeyFail(keys, "API key expired")
                      ELSE [raised |-> None,
                            info |-> Some([key_id |-> id, name |-> key_data.name,
                                           scopes |-> key_data.scopes,
                                           created_at |-> key_data.created_at,
                                           expires_at |-> key_data.expires_at]),
                            keys |-> [keys EXCEPT ![id].last_used = Some(now)]]

(***************************************************************************)
(* The rest of app/services/api_key_service.py.  ObjectId(key_id) raises   *)
(* for a malformed id: the operators are used on well-formed ids only,     *)
(* the handlers look at the id first.                                      *)
(***************************************************************************)
SecretOf(key_id) == IF key_id = "k1" THEN "s1" ELSE "s2"

generate_api_key(keys, new_id, name, expires_in_days) ==
    LET expires_at == IF expires_in_days = None \/ Get(expires_in_days) = 0
                      THEN None ELSE Some(now + Get(expires_in_days))
    IN  [id \in DOMAIN keys \cup {new_id} |->
           IF id = new_id THEN KeyDoc(name, SecretOf(new_id), expires_at, TRUE)
           ELSE keys[id]]

KeyInfo_with_hash(keys, id) ==
    [key_id |-> id, name |-> keys[id].name, scopes |-> keys[id].scopes,
     created_at |-> keys[id].created_at, key_hash |-> keys[id].key_hash,
     expires_at |-> keys[id].expires_at, is_active |-> keys[id].is_active,
     last_used |-> keys[id].last_used]

KeyInfo(keys, id) ==
    [key_id |-> id, name |-> keys[id].name, scopes |-> keys[id].scopes,
     created_at |-> keys[id].created_at,
     expires_at |-> keys[id].expires_at, is_active |-> keys[id].is_active,
     last_used |-> keys[id].last_used]

get_api_key_by_id(keys, key_id) ==
    IF key_id \in DOMAIN keys THEN Some(KeyInfo(keys, key_id)) ELSE None

list_api_keys(keys) == {KeyInfo(keys, id) : id \in DOMAIN keys}

(***************************************************************************)
(* update_api_key: updates maps field names to new values.  The result     *)
(* is modified_count > 0: a document matched and a value changed.          *)
(***************************************************************************)
update_api_key_any_field(keys, key_id, updates) ==
    IF DOMAIN updates = {} \/ key_id \notin DOMAIN keys
    THEN [keys |-> keys, success |-> FALSE]
    ELSE LET doc == [f \in DOMAIN keys[key_id] |->
                       IF f \in DOMAIN updates THEN updates[f]
                       ELSE keys[key_id][f]]
         IN  [keys |-> [keys EXCEPT ![key_id] = doc],
              success |-> doc # keys[key_id]]

update_api_key(keys, key_id, updates) ==
    LET safe_updates == DOMAIN updates \cap {"name", "scopes", "is_active"}
    IN  IF safe_updates = {} \/ key_id \notin DOMAIN keys
        THEN [keys |-> keys, success |-> FALSE]
        ELSE LET doc == [f \in DOMAIN keys[key_id] |->
                           IF f \in safe_updates THEN updates[f]
                           ELSE keys[key_id][f]]
             IN  [keys |-> [keys EXCEPT ![key_id] = doc],
                  success |-> doc # keys[key_id]]

deactivate_api_key(keys, key_id) ==
    update_api_key(keys, key_id, [is_active |-> FALSE])

delete_api_key_soft(keys, key_id) ==
    IF key_id \in DOMAIN keys
    THEN [keys |-> [keys EXCEPT ![key_id].is_active = FALSE], success |-> TRUE]
    ELSE [keys |-> keys, success |-> FALSE]

delete_api_key(keys, key_id) ==
    [keys |-> [id \in DOMAIN keys \ {key_id} |-> keys[id]],
     success |-> key_id \in DOMAIN keys]

(***************************************************************************)
(* app/services/auth_service.py.  The bearer strings: signed tokens begin  *)
(* with "eyJ", API keys with "ak_", anything else has another prefix.      *)
(* The whole body of get_current_user_or_api_key is inside                 *)
(* try: ... except Exception, and HTTPException is an Exception: every     *)
(* HTTPException(401) the body raises is caught there and raised again     *)
(* as HTTPException(500).                                                  *)
(***************************************************************************)
JwtTokens ==
    [prefix : {"eyJ"}, sub : UserIds \cup {"gone", MalformedId}, ok : {TRUE}]
        \cup {[prefix |-> "eyJ", sub |-> "u1", ok |-> FALSE]}
Credentials ==
    JwtTokens \cup {ApiKey(secret) : secret \in Secrets}
        \cup {[prefix |-> "xx", secret |-> "s1"]}

Principals ==
    [type : {"user"}, id : UserIds] \cup [type : {"api_key"}, info : {[key_id |-> "k1"]}]
        \cup {[type |-> "invalid", id |-> "u1"]}

except_Exception(status) == 500

AuthFailed(keys, status) ==
    [status |-> except_Exception(status), auth_result |-> None, keys |-> keys]

get_current_user_or_api_key_token_only(keys, token) ==
    LET user_id == IF token.prefix = "eyJ" THEN decode_access_token(token) ELSE None
    IN  IF user_id # None
        THEN [status |-> 200, keys |-> keys,
              auth_result |-> Some([type |-> "user", id |-> Get(user_id)])]
        ELSE AuthFailed(keys, 401)

get_current_user_or_api_key(keys, token) ==
    LET user_id == IF token.prefix = "eyJ" THEN decode_access_token(token) ELSE None
    IN  IF user_id # None
        THEN [status |-> 200, keys |-> keys,
              auth_result |-> Some([type |-> "user", id |-> Get(user_id)])]
        ELSE IF token.prefix = "ak_"
        THEN LET key_info == verify_api_key(keys, token)
             IN  IF key_info.raised = None
                 THEN [status |-> 200, keys |-> key_info.keys,
                       auth_result |-> Some([type |-> "api_key",
                                             info |-> Get(key_info.info)])]
                 ELSE AuthFailed(keys, 401)
        ELSE AuthFailed(keys, 401)

Granted(value) == [status |-> 200, value |-> Some(value)]
Refused(status) == [status |-> status, value |-> None]

require_user_auth_any_kind(auth_result) ==
    IF auth_result.type \in {"user", "api_key"}
    THEN Granted(IF auth_result.type = "user" THEN auth_result.id
                 ELSE auth_result.info.key_id)
    ELSE Refused(403)

require_user_auth(auth_result) ==
    IF auth_result.type = "user" THEN Granted(auth_result.id) ELSE Refused(403)

require_api_key_auth(auth_result) ==
    IF auth_result.type = "api_key" THEN Granted(auth_result.info) ELSE Refused(403)

require_any_auth(auth_result) == Granted(auth_result)

(***************************************************************************)
(* The response a handler sends, together with the request it answers.     *)
(***************************************************************************)
Reply(op, token, adventure_id, args, status, body) ==
    [op |-> op, token |-> token, adventure_id |-> adventure_id,
     args |-> args, status |-> status, body |-> body]

NoBody == [generator |-> "not called"]

InitialAdventures(pub) ==
           [id \in {"a1", "a2"} |->
              IF id = "a1"
              THEN [owner_id |-> "u1", is_public |-> pub, userPrompt |-> "P",
                    title |-> "T1", clone_of |-> None, image |-> NoImage,
                    nodes |-> <<RootNode(<<"oa", "ob">>)>>]
              ELSE [owner_id |-> "u2", is_public |-> FALSE, userPrompt |-> "",
                    title |-> "T2", clone_of |-> None,
                    image |-> [base |-> "k1", ext |-> ".jpg"],
                    nodes |-> <<RootNode(<< >>)>>]]

(***************************************************************************)
(* The requests a worker of the server has in progress: every process is   *)
(* idle or inside one handler, holding the handler's local variables.      *)
(* The specifications whose handlers run to completion keep all idle.      *)
(***************************************************************************)
Procs == {"p1", "p2"}
Idle == [op |-> "idle"]
NoCalls == [p \in Procs |-> Idle]

Init ==
    /\ now = 0
    /\ calls = NoCalls
    /\ \E pub \in BOOLEAN : adventures = InitialAdventures(pub)
    /\ users = InitialUsers
    /\ api_keys = InitialKeys
    /\ thumbs = {}
    /\ issued = {"a1", "a2", "k1"}
    /\ lineage = [id \in AdvIds |-> [intact |-> TRUE, picks |-> << >>]]
    /\ resp = Reply("none", [sub |-> "u1", ok |-> TRUE], "a1", << >>, 0, NoBody)

(***************************************************************************)
(* GET /adventure/nodes/{adventure_id}                                     *)
(***************************************************************************)
adventure_nodes(token, adventure_id) ==
    LET user_id == decode_access_token(token)
        R(status, body) == Reply("nodes", token, adventure_id, << >>, status, body)
    IN  /\ UNCHANGED <<now, calls, adventures, users, api_keys, thumbs, issued, lineage>>
        /\ IF user_id = None THEN resp' = R(500, NoBody)
           ELSE LET response == get_adventure_for_user(adventures, users,
                                                       adventure_id, Get(user_id))
                IN  IF response.code = 401 THEN resp' = R(401, NoBody)
                    ELSE IF response.code = 404 THEN resp' = R(404, NoBody)
                    ELSE resp' = R(200, [generator |-> "not called",
                                         nodes |-> Get(response.doc).nodes])

(***************************************************************************)
(* POST /adventure/start.  The request model is AdventureCreate; the       *)
(* handler reads adventure.coverimage before it does anything else, and    *)
(* reading a field the model does not declare raises AttributeError.       *)
(***************************************************************************)
AdventureCreateFields ==
    {"prompt", "min_words_per_level", "max_words_per_level", "max_levels",
     "perspective"}

FreshIds(used) == AdvIds \ used

start_adventure(token, coverimage) ==
    LET user_id == decode_access_token(token)
        R(status, body) == Reply("start", token, "", <<coverimage>>, status, body)
    IN  IF user_id = None \/ "coverimage" \notin AdventureCreateFields
        THEN /\ resp' = R(500, NoBody)
             /\ UNCHANGED <<now, calls, adventures, users, api_keys, thumbs, issued, lineage>>
        ELSE \E gen \in GenResults, image \in {NoImage} \cup ImageKeys,
                new_id \in FreshIds(issued) :
               IF gen = GenFail \/ (coverimage /\ image = NoImage)
               THEN /\ resp' = R(500, [generator |-> "failed"])
                    /\ UNCHANGED <<now, calls, adventures, users, api_keys, thumbs, issued, lineage>>
               ELSE LET adventure ==
                            [owner_id |-> Get(user_id), is_public |-> FALSE,
                             userPrompt |-> "P",
                             title |-> "T3", clone_of |-> None,
                             image |-> IF coverimage THEN image ELSE NoImage,
                             nodes |-> << >>]
                        inserted == [id \in DOMAIN adventures \cup {new_id} |->
                                       IF id = new_id THEN adventure
                                       ELSE adventures[id]]
                        node == [prev_option_index |-> None,
                                 prev_option_text |-> None,
                                 text |-> gen.text, options |-> gen.options]
                    IN  /\ adventures' = update_adventure_nodes(inserted, new_id, node)
                        /\ lineage' = [lineage EXCEPT
                                         ![new_id] = [intact |-> TRUE, picks |-> << >>]]
                        /\ issued' = issued \cup {new_id}
                        /\ resp' = R(200, [generator |-> "ok", adventure_id |-> new_id])
                        /\ UNCHANGED <<now, calls, users, api_keys, thumbs>>

(***************************************************************************)
(* PUT /adventure/continue.  start_from_node_id and selected_option are    *)
(* Optional[int]; arithmetic on None raises TypeError (a 500 response).    *)
(* The story generator is called only after both range checks passed.      *)
(***************************************************************************)
IndexInputs(nodes) == {None} \cup {Some(i) : i \in -1 .. Len(nodes)}
OptionInputs == {None} \cup {Some(i) : i \in -1 .. 2}

node_out_of_range_no_negative(nodes, start_from_node_id) ==
    Len(nodes) < start_from_node_id + 1

node_out_of_range(nodes, start_from_node_id) ==
    Len(nodes) < start_from_node_id + 1 \/ start_from_node_id < 0

option_out_of_range(nodes, start_from_node_id, selected_option) ==
    \/ Len(PyAt(nodes, start_from_node_id).options) < selected_option + 1
    \/ selected_option < 0

continue_adventure(token, adventure_id) ==
    LET user_id == decode_access_token(token)
        R(args, status, body) == Reply("continue", token, adventure_id, args, status, body)
        Same == UNCHANGED <<now, calls, adventures, users, api_keys, thumbs, issued, lineage>>
    IN  IF user_id = None THEN resp' = R(<< >>, 500, NoBody) /\ Same
        ELSE
        LET response == get_adventure_for_user(adventures, users,
                                               adventure_id, Get(user_id))
        IN  IF response.code = 401 THEN resp' = R(<< >>, 401, NoBody) /\ Same
            ELSE IF response.code = 404 THEN resp' = R(<< >>, 404, NoBody) /\ Same
            ELSE
            \E start_from_node_id \in IndexInputs(Get(response.doc).nodes),
               selected_option \in OptionInputs :
              LET nodes == Get(response.doc).nodes
                  args == [start_from_node_id |-> start_from_node_id,
                           selected_option |-> selected_option]
                  s == Get(start_from_node_id)
                  o == Get(selected_option)
              IN  IF start_from_node_id = None
                  THEN resp' = R(args, 500, NoBody) /\ Same
                  ELSE IF node_out_of_range(nodes, s)
                  THEN resp' = R(args, 400, NoBody) /\ Same
                  ELSE IF selected_option = None
                  THEN resp' = R(args, 500, NoBody) /\ Same
                  ELSE IF option_out_of_range(nodes, s, o)
                  THEN resp' = R(args, 400, NoBody) /\ Same
                  ELSE
                  \E gen \in GenResults :
                    LET new_node == generate_new_node(adventures, adventure_id, s, o, gen)
                        generator == IF gen = GenFail THEN "failed" ELSE "ok"
                    IN  IF new_node = None
                        THEN resp' = R(args, 500, [generator |-> generator]) /\ Same
                        ELSE
                        LET node == [prev_option_index |-> Some(o),
                                     prev_option_text |-> Get(new_node).prev_option_text,
                                     text |-> Get(new_node).text,
                                     options |-> Get(new_node).options]
                            new_node_index == s + 1
                        IN  /\ Len(nodes) < MaxNodes
                            /\ adventures' = update_adventure_nodes(adventures,
                                                                    adventure_id, node)
                            /\ lineage' =
                                 [lineage EXCEPT ![adventure_id].picks =
                                    IF lineage[adventure_id].intact
                                    THEN Append(@, [index |-> o,
                                                    text |-> PyAt(PyAt(nodes, s).options, o)])
                                    ELSE @]
                            /\ resp' = R(args, 200, [generator |-> generator,
                                                     node_index |-> new_node_index])
                            /\ UNCHANGED <<now, calls, users, api_keys, thumbs, issued>>

(***************************************************************************)
(* DELETE /adventure/delete                                                *)
(***************************************************************************)
adventure_delete_any_reader(token, adventure_id) ==
    LET user_id == decode_access_token(token)
        R(status) == Reply("delete", token, adventure_id, << >>, status, NoBody)
        Same == UNCHANGED <<now, calls, adventures, users, api_keys, thumbs, issued, lineage>>
    IN  IF user_id = None THEN resp' = R(500) /\ Same
        ELSE
        LET response == get_adventure_for_user(adventures, users,
                                               adventure_id, Get(user_id))
        IN  IF response.code = 404 THEN resp' = R(404) /\ Same
            ELSE IF response.code = 401
            THEN resp' = R(401) /\ Same
            ELSE /\ adventures' = delete_adventure(adventures, adventure_id)
                 /\ resp' = R(200)
                 /\ UNCHANGED <<now, calls, users, api_keys, thumbs, issued, lineage>>

adventure_delete(token, adventure_id) ==
    LET user_id == decode_access_token(token)
        R(status) == Reply("delete", token, adventure_id, << >>, status, NoBody)
        Same == UNCHANGED <<now, calls, adventures, users, api_keys, thumbs, issued, lineage>>
    IN  IF user_id = None THEN resp' = R(500) /\ Same
        ELSE
        LET response == get_adventure_for_user(adventures, users,
                                               adventure_id, Get(user_id))
        IN  IF response.code = 404 THEN resp' = R(404) /\ Same
            ELSE IF response.code = 401 \/ Get(user_id) # Get(response.doc).owner_id
            THEN resp' = R(401) /\ Same
            ELSE /\ adventures' = delete_adventure(adventures, adventure_id)
                 /\ resp' = R(200)
                 /\ UNCHANGED <<now, calls, users, api_keys, thumbs, issued, lineage>>

(***************************************************************************)
(* PATCH /adventure/truncate                                               *)
(***************************************************************************)
TruncateInputs == -1 .. MaxNodes + 1

adventure_truncate(token, adventure_id) ==
    LET user_id == decode_access_token(token)
        R(args, status) == Reply("truncate", token, adventure_id, args, status, NoBody)
        Same == UNCHANGED <<now, calls, adventures, users, api_keys, thumbs, issued, lineage>>
    IN  IF user_id = None THEN resp' = R(<< >>, 500) /\ Same
        ELSE
        LET response == get_adventure_for_user(adventures, users,
                                               adventure_id, Get(user_id))
        IN  IF response.code = 404 THEN resp' = R(<< >>, 404) /\ Same
            ELSE IF response.code = 401 \/ Get(user_id) # Get(response.doc).owner_id
            THEN resp' = R(<< >>, 401) /\ Same
            ELSE
            \E node_index \in TruncateInputs :
              /\ adventures' = truncate_adventure(adventures, adventure_id, node_index)
              /\ lineage' = [lineage EXCEPT ![adventure_id] =
                               [intact |-> FALSE, picks |-> << >>]]
              /\ resp' = R([node_index |-> node_index,
                            dropped |-> Len(Get(response.doc).nodes)
                                        - Len(adventures'[adventure_id].nodes)], 200)
              /\ UNCHANGED <<now, calls, users, api_keys, thumbs, issued>>

(***************************************************************************)
(* PUT /adventure/coverImage/update/{adventure_id}.  dalle is the image    *)
(* generator's answer and uploaded the key process_image stored the image  *)
(* under (NoImage: the step returned an error dict).                       *)
(***************************************************************************)
create_or_update_cover_image_flag_inverted(token, adventure_id) ==
    LET user_id == decode_access_token(token)
        R(args, status, body) == Reply("cover_update", token, adventure_id, args, status, body)
        Same == UNCHANGED <<now, calls, adventures, users, api_keys, thumbs, issued, lineage>>
    IN  IF user_id = None THEN resp' = R(<< >>, 500, NoBody) /\ Same
        ELSE
        LET response == get_adventure_for_user(adventures, users,
                                               adventure_id, Get(user_id))
        IN  IF response.code = 404 THEN resp' = R(<< >>, 404, NoBody) /\ Same
            ELSE IF response.code = 401 THEN resp' = R(<< >>, 401, NoBody) /\ Same
            ELSE
            \E force_regenerate \in BOOLEAN, custom_prompt \in {"", "C"} :
              LET doc == Get(response.doc)
                  args == [force_regenerate |-> force_regenerate,
                           custom_prompt |-> custom_prompt]
                  has_existing_image == doc.image # NoImage
                  prompt == IF custom_prompt # "" THEN custom_prompt ELSE doc.userPrompt
              IN  IF has_existing_image /\ force_regenerate
                  THEN resp' = R(args, 200, [generator |-> "not called", image |-> doc.image]) /\ Same
                  ELSE IF prompt = ""
                  THEN resp' = R(args, 400, NoBody) /\ Same
                  ELSE
                  \E dalle \in {"ok", "error"}, uploaded \in {NoImage} \cup ImageKeys :
                    IF dalle = "error"
                    THEN resp' = R(args, 500, [generator |-> "called", dalle |-> dalle,
                                               uploaded |-> NoImage]) /\ Same
                    ELSE IF uploaded = NoImage
                    THEN resp' = R(args, 500, [generator |-> "called", dalle |-> dalle,
                                               uploaded |-> uploaded]) /\ Same
                    ELSE IF uploaded = doc.image
                    THEN resp' = R(args, 500, [generator |-> "called", dalle |-> dalle,
                                               uploaded |-> uploaded]) /\ Same
                    ELSE /\ adventures' = [adventures EXCEPT ![adventure_id].image = uploaded]
                         /\ resp' = R(args, 200, [generator |-> "called", dalle |-> dalle,
                                                  uploaded |-> uploaded, image |-> uploaded])
                         /\ UNCHANGED <<now, calls, users, api_keys, thumbs, issued, lineage>>

create_or_update_cover_image(token, adventure_id) ==
    LET user_id == decode_access_token(token)
        R(args, status, body) == Reply("cover_update", token, adventure_id, args, status, body)
        Same == UNCHANGED <<now, calls, adventures, users, api_keys, thumbs, issued, lineage>>
    IN  IF user_id = None THEN resp' = R(<< >>, 500, NoBody) /\ Same
        ELSE
        LET response == get_adventure_for_user(adventures, users,
                                               adventure_id, Get(user_id))
        IN  IF response.code = 404 THEN resp' = R(<< >>, 404, NoBody) /\ Same
            ELSE IF response.code = 401 THEN resp' = R(<< >>, 401, NoBody) /\ Same
            ELSE
            \E force_regenerate \in BOOLEAN, custom_prompt \in {"", "C"} :
              LET doc == Get(response.doc)
                  args == [force_regenerate |-> force_regenerate,
                           custom_prompt |-> custom_prompt]
                  has_existing_image == doc.image # NoImage
                  prompt == IF custom_prompt # "" THEN custom_prompt ELSE doc.userPrompt
              IN  IF has_existing_image /\ ~force_regenerate
                  THEN resp' = R(args, 200, [generator |-> "not called", image |-> doc.image]) /\ Same
                  ELSE IF prompt = ""
                  THEN resp' = R(args, 400, NoBody) /\ Same
                  ELSE
                  \E dalle \in {"ok", "error"}, uploaded \in {NoImage} \cup ImageKeys :
                    IF dalle = "error"
                    THEN resp' = R(args, 500, [generator |-> "called", dalle |-> dalle,
                                               uploaded |-> NoImage]) /\ Same
                    ELSE IF uploaded = NoImage
                    THEN resp' = R(args, 500, [generator |-> "called", dalle |-> dalle,
                                               uploaded |-> uploaded]) /\ Same
                    ELSE IF uploaded = doc.image
                    THEN resp' = R(args, 500, [generator |-> "called", dalle |-> dalle,
                                               uploaded |-> uploaded]) /\ Same
                    ELSE /\ adventures' = [adventures EXCEPT ![adventure_id].image = uploaded]
                         /\ resp' = R(args, 200, [generator |-> "called", dalle |-> dalle,
                                                  uploaded |-> uploaded, image |-> uploaded])
                         /\ UNCHANGED <<now, calls, users, api_keys, thumbs, issued, lineage>>

(***************************************************************************)
(* app/services/image_service.py                                           *)
(***************************************************************************)
generate_thumbnail_cache_key(s3_key, width, height, crop_position, quality) ==
    [base_key |-> s3_key.base, width |-> width, height |-> height,
     crop_position |-> crop_position, quality |-> quality]

valid_crop_positions ==
    {"center", "top", "bottom", "left", "right", "top-left", "top-right",
     "bottom-left", "bottom-right"}

Dimensions == {0, 300, 2001}
Qualities == {0, 85, 101}
CropInputs == {"center", "middle"}

(***************************************************************************)
(* GET /adventure/coverImage/{adventure_id}                                *)
(***************************************************************************)
get_cover_image_thumbnail(token, adventure_id) ==
    LET user_id == decode_access_token(token)
        R(args, status) == Reply("thumbnail", token, adventure_id, args, status, NoBody)
        Same == UNCHANGED <<now, calls, adventures, users, api_keys, thumbs, issued, lineage>>
    IN  IF user_id = None THEN resp' = R(<< >>, 500) /\ Same
        ELSE
        LET response == get_adventure_for_user(adventures, users,
                                               adventure_id, Get(user_id))
        IN  IF response.code = 404 THEN resp' = R(<< >>, 404) /\ Same
            ELSE IF response.code = 401 THEN resp' = R(<< >>, 404) /\ Same
            ELSE IF Get(response.doc).image = NoImage THEN resp' = R(<< >>, 404) /\ Same
            ELSE
            \E width \in Dimensions, height \in Dimensions, crop \in CropInputs,
               quality \in Qualities, use_cache \in BOOLEAN :
              LET args == [width |-> width, height |-> height, crop |-> crop,
                           quality |-> quality, use_cache |-> use_cache]
                  cache_key == generate_thumbnail_cache_key(Get(response.doc).image,
                                                            width, height, crop, quality)
              IN  IF width <= 0 \/ height <= 0 THEN resp' = R(args, 400) /\ Same
                  ELSE IF width > 2000 \/ height > 2000 THEN resp' = R(args, 400) /\ Same
                  ELSE IF quality < 1 \/ quality > 100 THEN resp' = R(args, 400) /\ Same
                  ELSE IF crop \notin valid_crop_positions THEN resp' = R(args, 400) /\ Same
                  ELSE
                  \E s3_ok \in BOOLEAN, cache_put_ok \in BOOLEAN :
                    IF ~s3_ok THEN resp' = R(args, 500) /\ Same
                    ELSE IF use_cache /\ cache_key \in thumbs
                    THEN resp' = R(args, 200) /\ Same
                    ELSE /\ thumbs' = IF use_cache /\ cache_put_ok
                                      THEN thumbs \cup {cache_key} ELSE thumbs
                         /\ resp' = R(args, 200)
                         /\ UNCHANGED <<now, calls, adventures, users, api_keys, issued, lineage>>

(***************************************************************************)
(* GET /adventure/list                                                     *)
(***************************************************************************)
adventure_list(token) ==
    LET owner_id == decode_access_token(token)
        R(status, body) == Reply("list", token, "", << >>, status, body)
    IN  /\ UNCHANGED <<now, calls, adventures, users, api_keys, thumbs, issued, lineage>>
        /\ IF owner_id = None THEN resp' = R(500, NoBody)
           ELSE resp' = R(200, [generator |-> "not called",
                                adventures |-> fetch_adventures(adventures,
                                                                Get(owner_id))])

(***************************************************************************)
(* clone_adventure(adventure_id, user_id) of the adventure service.  It    *)
(* signals every failure by raising: status 500 stands for a raised        *)
(* exception, body.error for its message (or its type).                    *)
(***************************************************************************)
clone_adventure(user_id, adventure_id) ==
    LET R(status, body) == Reply("clone", [sub |-> user_id, ok |-> TRUE],
                                 adventure_id, << >>, status, body)
        Raise(error) == R(500, [generator |-> "not called", error |-> error])
        Same == UNCHANGED <<now, calls, adventures, users, api_keys, thumbs, issued, lineage>>
        original_adventure == get_adventure_for_user(adventures, users,
                                                     adventure_id, user_id)
    IN  IF original_adventure.code = 404
        THEN resp' = Raise("Adventure not found") /\ Same
        ELSE IF original_adventure.code = 401
        THEN resp' = Raise("User not authorized to access this adventure") /\ Same
        ELSE
        \E new_id \in FreshIds(issued) :
          LET original == Get(original_adventure.doc)
              cloned_adventure ==
                  [owner_id |-> user_id, is_public |-> FALSE,
                   userPrompt |-> original.userPrompt,
                   title |-> "(copy) " \o original.title,
                   clone_of |-> Some(adventure_id),
                   image |-> original.image, nodes |-> << >>]
              result == create_adventure(adventures, new_id, cloned_adventure)
          IN  IF result = None THEN resp' = Raise("NameError") /\ Same
              ELSE /\ adventures' = clone_nodes(Get(result), new_id, original.nodes)
                   /\ issued' = issued \cup {new_id}
                   /\ lineage' = [lineage EXCEPT
                                    ![new_id] = [intact |-> FALSE, picks |-> << >>]]
                   /\ resp' = R(200, [generator |-> "not called",
                                      adventure_id |-> new_id,
                                      clone_of |-> adventure_id])
                   /\ UNCHANGED <<now, calls, users, api_keys, thumbs>>

(***************************************************************************)
(* A request to an endpoint declared with Depends(require_user_auth),      *)
(* Depends(require_api_key_auth) or Depends(require_any_auth): the         *)
(* credential verifier runs first, then the gate on its result.            *)
(***************************************************************************)
depends_on(gate, token) ==
    LET verified == get_current_user_or_api_key(api_keys, token)
        R(status, body) == Reply(gate, token, "", << >>, status, body)
    IN  /\ api_keys' = verified.keys
        /\ UNCHANGED <<now, calls, adventures, users, thumbs, issued, lineage>>
        /\ IF verified.auth_result = None
           THEN resp' = R(verified.status,
                          [generator |-> "not called", auth_result |-> None,
                           value |-> None])
           ELSE LET auth_result == Get(verified.auth_result)
                    checked == IF gate = "require_user_auth"
                               THEN require_user_auth(auth_result)
                               ELSE IF gate = "require_api_key_auth"
                               THEN require_api_key_auth(auth_result)
                               ELSE require_any_auth(auth_result)
                IN  resp' = R(checked.status,
                              [generator |-> "not called",
                               auth_result |-> verified.auth_result,
                               value |-> checked.value])

depends_require_user_auth(token) == depends_on("require_user_auth", token)
depends_require_api_key_auth(token) == depends_on("require_api_key_auth", token)
depends_require_any_auth(token) == depends_on("require_any_auth", token)

(***************************************************************************)
(* app/routers/admin.py.  verify_admin_token depends on require_any_auth,  *)
(* which depends on the credential verifier.  db is the user collection    *)
(* as this request finds it: users, or StoreDown when its lookups raise.   *)
(***************************************************************************)
extract_user_id(auth_result) ==
    IF auth_result.type = "user" THEN auth_result.id ELSE auth_result.info.key_id

verify_admin_token(db, auth_result) ==
    LET user_id == extract_user_id(auth_result)
    IN  IF ~is_user_admin(db, user_id) THEN Refused(403) ELSE Granted(user_id)

AdminGate(db, token) ==
    LET verified == get_current_user_or_api_key(api_keys, token)
    IN  IF verified.auth_result = None
        THEN [status |-> verified.status, admin_id |-> None, keys |-> verified.keys]
        ELSE LET auth_result == Get(require_any_auth(Get(verified.auth_result)).value)
                 checked == verify_admin_token(db, auth_result)
             IN  [status |-> checked.status, admin_id |-> checked.value,
                  keys |-> verified.keys]

Databases == {users, StoreDown}

AdminReply(op, token, db, args, status, body) ==
    Reply(op, token, "", args, status,
          [generator |-> "not called", lookup_failed |-> (db = StoreDown),
           data |-> body])

(***************************************************************************)
(* A request the gate turned away: only the credential verifier's write    *)
(* of last_used has happened.                                              *)
(***************************************************************************)
TurnedAway(op, token, db, gate) ==
    /\ resp' = AdminReply(op, token, db, << >>, gate.status, None)
    /\ api_keys' = gate.keys
    /\ UNCHANGED <<now, calls, adventures, users, thumbs, issued, lineage>>

KeyNames == {"n2", ""}
ExpiryInputs == {None, Some(30), Some(0), Some(366)}

create_api_key(token) ==
    \E db \in Databases :
      LET gate == AdminGate(db, token)
      IN  IF gate.admin_id = None THEN TurnedAway("create_api_key", token, db, gate)
          ELSE
          \E name \in KeyNames, expires_in_days \in ExpiryInputs,
             new_id \in KeyIds \ issued :
            LET args == [name |-> name, expires_in_days |-> expires_in_days]
                R(status, body) == AdminReply("create_api_key", token, db, args,
                                              status, body)
                Same == /\ api_keys' = gate.keys
                        /\ UNCHANGED <<now, calls, adventures, users, thumbs, issued, lineage>>
            IN  IF name = "" THEN resp' = R(400, None) /\ Same
                ELSE IF expires_in_days # None
                        /\ (Get(expires_in_days) <= 0 \/ Get(expires_in_days) > 365)
                THEN resp' = R(400, None) /\ Same
                ELSE /\ api_keys' = generate_api_key(gate.keys, new_id, name,
                                                     expires_in_days)
                     /\ issued' = issued \cup {new_id}
                     /\ resp' = R(200, Some([key_id |-> new_id,
                                             api_key |-> ApiKey(SecretOf(new_id))]))
                     /\ UNCHANGED <<now, calls, adventures, users, thumbs, lineage>>

list_all_api_keys(token) ==
    \E db \in Databases :
      LET gate == AdminGate(db, token)
      IN  IF gate.admin_id = None THEN TurnedAway("list_all_api_keys", token, db, gate)
          ELSE /\ resp' = AdminReply("list_all_api_keys", token, db, << >>, 200,
                                     Some(list_api_keys(gate.keys)))
               /\ api_keys' = gate.keys
               /\ UNCHANGED <<now, calls, adventures, users, thumbs, issued, lineage>>

(***************************************************************************)
(* The key endpoints raise HTTPException(404) or (400) inside              *)
(* try: ... except Exception, which raises it again as 500; so does the    *)
(* InvalidId that ObjectId(key_id) raises for a malformed id.              *)
(***************************************************************************)
KeyIdInputs == KeyIds \cup {MalformedId}

get_api_key_info(token) ==
    \E db \in Databases :
      LET gate == AdminGate(db, token)
      IN  IF gate.admin_id = None THEN TurnedAway("get_api_key_info", token, db, gate)
          ELSE
          \E key_id \in KeyIdInputs :
            LET R(status, body) == AdminReply("get_api_key_info", token, db,
                                              [key_id |-> key_id], status, body)
                key_info == get_api_key_by_id(gate.keys, key_id)
            IN  /\ api_keys' = gate.keys
                /\ UNCHANGED <<now, calls, adventures, users, thumbs, issued, lineage>>
                /\ IF ~ObjectId_is_valid(key_id) THEN resp' = R(500, None)
                   ELSE IF key_info = None
                   THEN resp' = R(except_Exception(404), None)
                   ELSE resp' = R(200, key_info)

(***************************************************************************)
(* updates is the request body without its None fields.                    *)
(***************************************************************************)
update_api_key_info(token, UpdateInputs) ==
    \E db \in Databases :
      LET gate == AdminGate(db, token)
      IN  IF gate.admin_id = None
          THEN TurnedAway("update_api_key_info", token, db, gate)
          ELSE
          \E key_id \in KeyIdInputs, update_data \in UpdateInputs :
            LET R(status) == AdminReply("update_api_key_info", token, db,
                                        [key_id |-> key_id, updates |-> update_data],
                                        status, None)
                Same == api_keys' = gate.keys
                updated == update_api_key(gate.keys, key_id, update_data)
            IN  /\ UNCHANGED <<now, calls, adventures, users, thumbs, issued, lineage>>
                /\ IF DOMAIN update_data = {}
                   THEN resp' = R(except_Exception(400)) /\ Same
                   ELSE IF ~ObjectId_is_valid(key_id) THEN resp' = R(500) /\ Same
                   ELSE /\ api_keys' = updated.keys
                        /\ resp' = IF updated.success THEN R(200)
                                   ELSE R(except_Exception(404))

deactivate_api_key_endpoint(token) ==
    \E db \in Databases :
      LET gate == AdminGate(db, token)
      IN  IF gate.admin_id = None
          THEN TurnedAway("deactivate_api_key_endpoint", token, db, gate)
          ELSE
          \E key_id \in KeyIdInputs :
            LET R(status) == AdminReply("deactivate_api_key_endpoint", token, db,
                                        [key_id |-> key_id], status, None)
                updated == deactivate_api_key(gate.keys, key_id)
            IN  /\ UNCHANGED <<now, calls, adventures, users, thumbs, issued, lineage>>
                /\ IF ~ObjectId_is_valid(key_id)
                   THEN resp' = R(500) /\ api_keys' = gate.keys
                   ELSE /\ api_keys' = updated.keys
                        /\ resp' = IF updated.success THEN R(200)
                                   ELSE R(except_Exception(404))

delete_api_key_endpoint(token) ==
    \E db \in Databases :
      LET gate == AdminGate(db, token)
      IN  IF gate.admin_id = None
          THEN TurnedAway("delete_api_key_endpoint", token, db, gate)
          ELSE
          \E key_id \in KeyIdInputs :
            LET R(status) == AdminReply("delete_api_key_endpoint", token, db,
                                        [key_id |-> key_id], status, None)
                deleted == delete_api_key(gate.keys, key_id)
            IN  /\ UNCHANGED <<now, calls, adventures, users, thumbs, issued, lineage>>
                /\ IF ~ObjectId_is_valid(key_id)
                   THEN resp' = R(500) /\ api_keys' = gate.keys
                   ELSE /\ api_keys' = deleted.keys
                        /\ resp' = IF deleted.success THEN R(200)
                                   ELSE R(except_Exception(404))

(***************************************************************************)
(* POST /admin/users.  register_user looks the email up in the live        *)
(* collection; its HTTPException(409) is raised again as 500.              *)
(***************************************************************************)
NewUserIds == {"u3"}
EmailInputs == {"new@x", "u1@x"}
UserRole == {"user", "admin"}

create_user_admin(token) ==
    \E db \in Databases :
      LET gate == AdminGate(db, token)
      IN  IF gate.admin_id = None THEN TurnedAway("create_user_admin", token, db, gate)
          ELSE
          \E email \in EmailInputs, role \in UserRole, new_id \in NewUserIds \ issued :
            LET R(status, body) == AdminReply("create_user_admin", token, db,
                                              [email |-> email, role |-> role],
                                              status, body)
                registered == register_user(users, new_id, email, role)
            IN  /\ api_keys' = gate.keys
                /\ UNCHANGED <<now, calls, adventures, thumbs, lineage>>
                /\ IF registered = None
                   THEN /\ resp' = R(except_Exception(409), None)
                        /\ UNCHANGED <<now, calls, users, issued>>
                   ELSE /\ users' = Get(registered)
                        /\ issued' = issued \cup {new_id}
                        /\ resp' = R(200, Some([user_id |-> new_id]))

(***************************************************************************)
(* DELETE /admin/users/{user_id}.  Its HTTPExceptions pass through         *)
(* (except HTTPException: raise).  us.delete_user is not a name of         *)
(* app.services.user_service: reading it raises AttributeError, which      *)
(* except Exception turns into 500.                                        *)
(***************************************************************************)
UserIdInputs == UserIds \cup {"gone", MalformedId}

delete_user_admin(token) ==
    \E db \in Databases :
      LET gate == AdminGate(db, token)
      IN  IF gate.admin_id = None THEN TurnedAway("delete_user_admin", token, db, gate)
          ELSE
          \E user_id \in UserIdInputs :
            LET admin_id == Get(gate.admin_id)
                R(status) == AdminReply("delete_user_admin", token, db,
                                        [user_id |-> user_id], status, None)
                Same == UNCHANGED <<now, calls, users>>
                user == get_user_by_id(db, user_id)
            IN  /\ api_keys' = gate.keys
                /\ UNCHANGED <<now, calls, adventures, thumbs, issued, lineage>>
                /\ IF user_id = admin_id THEN resp' = R(400) /\ Same
                   ELSE IF user = None THEN resp' = R(404) /\ Same
                   ELSE IF "delete_user" \notin UserServiceNames
                   THEN resp' = R(500) /\ Same
                   ELSE /\ users' = [u \in DOMAIN users \ {user_id} |-> users[u]]
                        /\ resp' = R(200)

(***************************************************************************)
(* GET /admin/debug/user-role depends on require_any_auth only.            *)
(***************************************************************************)
get_user_role(db, user_id) ==
    LET user == get_user_by_id(db, user_id)
    IN  IF user # None /\ "role" \in DOMAIN Get(user) THEN Get(user).role
        ELSE "user"

debug_user_role(token) ==
    \E db \in Databases :
      LET verified == get_current_user_or_api_key(api_keys, token)
          R(status, body) == AdminReply("debug_user_role", token, db, << >>,
                                        status, body)
      IN  /\ api_keys' = verified.keys
          /\ UNCHANGED <<now, calls, adventures, users, thumbs, issued, lineage>>
          /\ IF verified.auth_result = None THEN resp' = R(verified.status, None)
             ELSE LET user_id == extract_user_id(
                                     Get(require_any_auth(Get(verified.auth_result)).value))
                  IN  resp' = R(200, Some([user_id |-> user_id,
                                           user_data |-> get_user_by_id(db, user_id),
                                           role |-> get_user_role(db, user_id),
                                           is_admin |-> is_user_admin(db, user_id)]))

(***************************************************************************)
(* Requests address a1 (present or deleted), any adventure created later   *)
(* and a malformed id; a2 is another user's document that no request       *)
(* names.                                                                  *)
(***************************************************************************)
RequestIds(store) == ({"a1", MalformedId} \cup DOMAIN store) \ {"a2"}

Next ==
    \/ \E token \in Tokens, id \in RequestIds(adventures) : adventure_nodes(token, id)
    \/ \E token \in Tokens, coverimage \in BOOLEAN : start_adventure(token, coverimage)
    \/ \E token \in Tokens, id \in RequestIds(adventures) : continue_adventure(token, id)
    \/ \E token \in Tokens, id \in RequestIds(adventures) : adventure_delete(token, id)
    \/ \E token \in Tokens, id \in RequestIds(adventures) : adventure_truncate(token, id)
    \/ \E token \in Tokens : adventure_list(token)
    \/ \E user_id \in UserIds, id \in RequestIds(adventures) :
         clone_adventure(user_id, id)

Spec == Init /\ [][Next]_vars

(***************************************************************************)
(* The cover-image endpoints, which never touch a node sequence.           *)
(***************************************************************************)
NextImages ==
    \/ \E token \in Tokens, id \in RequestIds(adventures) :
         create_or_update_cover_image(token, id)
    \/ \E token \in Tokens, id \in RequestIds(adventures) :
         get_cover_image_thumbnail(token, id)
    \/ \E token \in Tokens, id \in RequestIds(adventures) : adventure_delete(token, id)

SpecImages == Init /\ [][NextImages]_vars

(***************************************************************************)
(* The cover-image update asked for every stored adventure: a1 has a       *)
(* stored prompt and at first no image, a2 has an image and an empty       *)
(* stored prompt.                                                          *)
(***************************************************************************)
CoverIds(store) == DOMAIN store \cup {"a1", MalformedId}

NextCover ==
    \/ \E token \in Tokens, id \in CoverIds(adventures) :
         create_or_update_cover_image(token, id)
    \/ \E token \in Tokens, id \in CoverIds(adventures) : adventure_delete(token, id)

SpecCover == Init /\ [][NextCover]_vars

(***************************************************************************)
(* The authentication layer on its own, over key stores that hold one      *)
(* key in each of its conditions.                                          *)
(***************************************************************************)
ExpiryTimes == {None, Some(2), Some(0)}

InitAuth ==
    /\ now = 1
    /\ calls = NoCalls
    /\ adventures = InitialAdventures(FALSE)
    /\ users = InitialUsers
    /\ \E expires_at \in ExpiryTimes, is_active \in BOOLEAN :
         api_keys = [k \in {"k1"} |-> KeyDoc("n1", "s1", expires_at, is_active)]
    /\ thumbs = {}
    /\ issued = {"a1", "a2", "k1"}
    /\ lineage = [id \in AdvIds |-> [intact |-> TRUE, picks |-> << >>]]
    /\ resp = Reply("none", [sub |-> "u1", ok |-> TRUE], "a1", << >>, 0, NoBody)

NextAuth ==
    \/ \E token \in Credentials : depends_require_user_auth(token)
    \/ \E token \in Credentials : depends_require_api_key_auth(token)
    \/ \E token \in Credentials : depends_require_any_auth(token)

SpecAuth == InitAuth /\ [][NextAuth]_vars

(***************************************************************************)
(* The admin endpoints.  The user collection holds an admin, a user whose  *)
(* role is spelled "Admin" and a user document without a role field;       *)
(* tokens also name a user that is gone and a malformed id.                *)
(***************************************************************************)
AdminCredentials ==
    {t \in JwtTokens : t.sub # "u2" \/ t.ok} \cup {ApiKey("s1")}

AdminUpdates == {<< >>, [is_active |-> FALSE], [is_active |-> TRUE]}

InitAdmin ==
    /\ now = 0
    /\ calls = NoCalls
    /\ adventures = InitialAdventures(FALSE)
    /\ users = [u \in UserIds |->
                  IF u = "adm" THEN [email |-> "adm@x", role |-> "admin"]
                  ELSE IF u = "u1" THEN [email |-> "u1@x", role |-> "Admin"]
                  ELSE [email |-> "u2@x"]]
    /\ api_keys = InitialKeys
    /\ thumbs = {}
    /\ issued = {"a1", "a2", "k1"}
    /\ lineage = [id \in AdvIds |-> [intact |-> TRUE, picks |-> << >>]]
    /\ resp = Reply("none", [sub |-> "u1", ok |-> TRUE], "a1", << >>, 0, NoBody)

NextAdmin ==
    \/ \E token \in AdminCredentials : create_api_key(token)
    \/ \E token \in AdminCredentials : list_all_api_keys(token)
    \/ \E token \in AdminCredentials : get_api_key_info(token)
    \/ \E token \in AdminCredentials : update_api_key_info(token, AdminUpdates)
    \/ \E token \in AdminCredentials : deactivate_api_key_endpoint(token)
    \/ \E token \in AdminCredentials : delete_api_key_endpoint(token)
    \/ \E token \in AdminCredentials : create_user_admin(token)
    \/ \E token \in AdminCredentials : delete_user_admin(token)
    \/ \E token \in AdminCredentials : debug_user_role(token)

SpecAdmin == InitAdmin /\ [][NextAdmin]_vars

(***************************************************************************)
(* Registration.  The email strings stand for well-formed addresses that   *)
(* differ in the case of the local part or of the domain.  EmailStr, the   *)
(* type of UserCreate.email, lower-cases the domain and keeps the local    *)
(* part; sanitize_email strips and lower-cases the whole address.          *)
(***************************************************************************)
RegisterEmails == {"new@x", "New@x", "new@X", "U1@x"}

lower(email) ==
    IF email \in {"new@x", "New@x", "new@X"} THEN "new@x"
    ELSE IF email \in {"u1@x", "U1@x"} THEN "u1@x"
    ELSE email

EmailStr(email) == IF email = "new@X" THEN "new@x" ELSE email

sanitize_email(email) == lower(email)

RegistrationIds == {"u3", "u4"}

create_user(us, new_id, email, role) ==
    [u \in DOMAIN us \cup {new_id} |->
       IF u = new_id THEN [email |-> email, role |-> role] ELSE us[u]]

NoToken == [prefix |-> "none"]

(***************************************************************************)
(* register_user runs in two store operations with an await between them:  *)
(* find_one by email, then insert_one.  register_user_lookup is the call   *)
(* up to and including the lookup; a call that found no user waits in      *)
(* calls[p] for its insert.  reraise is the status the calling handler     *)
(* gives the HTTPException(409): routers/user.py answers 409, the admin    *)
(* router's except Exception answers 500.                                  *)
(***************************************************************************)
register_user_lookup(p, op, token, email, role, reraise) ==
    /\ calls[p] = Idle
    /\ IF get_user_by_email(users, email) # None
       THEN /\ resp' = Reply(op, token, "", [email |-> email, role |-> role],
                             reraise, NoBody)
            /\ UNCHANGED calls
       ELSE /\ calls' = [calls EXCEPT ![p] =
                           [op |-> op, token |-> token, email |-> email, role |-> role]]
            /\ UNCHANGED resp
    /\ UNCHANGED <<now, adventures, users, api_keys, thumbs, issued, lineage>>

register_user_insert(p) ==
    /\ calls[p].op \in {"register", "create_user_admin"}
    /\ RegistrationIds \ issued # {}
    /\ LET new_user_id == CHOOSE id \in RegistrationIds \ issued : TRUE
           call == calls[p]
       IN  /\ users' = create_user(users, new_user_id, call.email, call.role)
           /\ issued' = issued \cup {new_user_id}
           /\ resp' = Reply(call.op, call.token, "",
                            [email |-> call.email, role |-> call.role], 200,
                            [generator |-> "not called", user_id |-> new_user_id])
    /\ calls' = [calls EXCEPT ![p] = Idle]
    /\ UNCHANGED <<now, adventures, api_keys, thumbs, lineage>>

(***************************************************************************)
(* POST /user/register                                                     *)
(***************************************************************************)
register(p, user_email, role) ==
    LET email == sanitize_email(EmailStr(user_email))
    IN  register_user_lookup(p, "register", NoToken, email, role, 409)

(***************************************************************************)
(* POST /admin/users for a caller who passed the admin gate: the email     *)
(* goes to register_user as the request model holds it.                    *)
(***************************************************************************)
create_user_admin_call(p, token, user_email, role) ==
    /\ AdminGate(users, token).admin_id # None
    /\ register_user_lookup(p, "create_user_admin", token, EmailStr(user_email),
                            role, except_Exception(409))

InitUsers ==
    /\ now = 0
    /\ calls = NoCalls
    /\ adventures = InitialAdventures(FALSE)
    /\ users = InitialUsers
    /\ api_keys = InitialKeys
    /\ thumbs = {}
    /\ issued = {"a1", "a2", "k1"}
    /\ lineage = [id \in AdvIds |-> [intact |-> TRUE, picks |-> << >>]]
    /\ resp = Reply("none", NoToken, "", << >>, 0, NoBody)

NextUsers ==
    \/ \E p \in Procs, email \in RegisterEmails, role \in UserRole :
         register(p, email, role)
    \/ \E p \in Procs, email \in RegisterEmails, role \in UserRole :
         create_user_admin_call(p, [prefix |-> "eyJ", sub |-> "adm", ok |-> TRUE],
                                email, role)
    \/ \E p \in Procs : register_user_insert(p)

SpecUsers == InitUsers /\ [][NextUsers]_vars

(***************************************************************************)
(* The same endpoints on a deployment whose user collection holds no       *)
(* admin.  UserCreate declares role: UserRole = UserRole.USER, a field of  *)
(* the request body like any other, and register hands user.role.value to  *)
(* register_user.  The admin endpoint is called with the signed token of   *)
(* an existing user or of a user registered since.                         *)
(***************************************************************************)
FirstAdminCallers == {"u1"} \cup RegistrationIds

InitNoAdmin ==
    /\ now = 0
    /\ calls = NoCalls
    /\ adventures = InitialAdventures(FALSE)
    /\ users = [u \in {"u1", "u2"} |-> InitialUsers[u]]
    /\ api_keys = InitialKeys
    /\ thumbs = {}
    /\ issued = {"a1", "a2", "k1"}
    /\ lineage = [id \in AdvIds |-> [intact |-> TRUE, picks |-> << >>]]
    /\ resp = Reply("none", NoToken, "", << >>, 0, NoBody)

NextNoAdmin ==
    \/ \E p \in Procs, email \in RegisterEmails, role \in UserRole :
         register(p, email, role)
    \/ \E p \in Procs, sub \in FirstAdminCallers, email \in RegisterEmails,
          role \in UserRole :
         create_user_admin_call(p, [prefix |-> "eyJ", sub |-> sub, ok |-> TRUE],
                                email, role)
    \/ \E p \in Procs : register_user_insert(p)

SpecNoAdmin == InitNoAdmin /\ [][NextNoAdmin]_vars

(***************************************************************************)
(* The API-key service called directly, with the clock running.  raised    *)
(* is the exception the call raised (None: it returned value).  ObjectId   *)
(* raises InvalidId for a malformed key id.                                *)
(***************************************************************************)
MaxTime == 2

Ret(op, args, raised, value) ==
    Reply(op, NoToken, "", args, 0,
          [generator |-> "not called", raised |-> raised, value |-> value])

PresentedKeys == {ApiKey(secret) : secret \in Secrets} \cup {[prefix |-> "xx", secret |-> "s1"]}

ServiceUpdates ==
    {<< >>, [is_active |-> TRUE], [is_active |-> FALSE], [name |-> "n9"],
     [key_hash |-> sha256(ApiKey("s9")), expires_at |-> None, last_used |-> None,
      created_at |-> MaxTime],
     [name |-> "n9", key_hash |-> sha256(ApiKey("s9"))]}

KeysFrame == UNCHANGED <<now, calls, adventures, users, thumbs, lineage>>

key_generate(name, expires_in_days) ==
    /\ KeyIds \ issued # {}
    /\ LET new_id == CHOOSE id \in KeyIds \ issued : TRUE
           keys == generate_api_key(api_keys, new_id, name, expires_in_days)
       IN  /\ api_keys' = keys
           /\ issued' = issued \cup {new_id}
           /\ resp' = Ret("generate_api_key",
                          [name |-> name, expires_in_days |-> expires_in_days], None,
                          Some([f \in DOMAIN keys[new_id] \cup {"key_id", "api_key"} |->
                                  IF f = "key_id" THEN new_id
                                  ELSE IF f = "api_key" THEN ApiKey(SecretOf(new_id))
                                  ELSE keys[new_id][f]]))
    /\ KeysFrame

key_verify(api_key) ==
    LET r == verify_api_key(api_keys, api_key)
    IN  /\ api_keys' = r.keys
        /\ resp' = Ret("verify_api_key", [api_key |-> api_key], r.raised, r.info)
        /\ UNCHANGED issued
        /\ KeysFrame

key_get(key_id) ==
    /\ resp' = IF ~ObjectId_is_valid(key_id)
               THEN Ret("get_api_key_by_id", [key_id |-> key_id], Some("InvalidId"), None)
               ELSE Ret("get_api_key_by_id", [key_id |-> key_id], None,
                        get_api_key_by_id(api_keys, key_id))
    /\ UNCHANGED <<api_keys, issued>>
    /\ KeysFrame

key_list ==
    /\ resp' = Ret("list_api_keys", << >>, None, Some(list_api_keys(api_keys)))
    /\ UNCHANGED <<api_keys, issued>>
    /\ KeysFrame

key_update(op, key_id, updates) ==
    LET args == [key_id |-> key_id, updates |-> updates]
        safe_updates == DOMAIN updates \cap {"name", "scopes", "is_active"}
    IN  /\ IF safe_updates # {} /\ ~ObjectId_is_valid(key_id)
           THEN /\ resp' = Ret(op, args, Some("InvalidId"), None)
                /\ UNCHANGED api_keys
           ELSE LET r == update_api_key(api_keys, key_id, updates)
                IN  /\ api_keys' = r.keys
                    /\ resp' = Ret(op, args, None, Some(r.success))
        /\ UNCHANGED issued
        /\ KeysFrame

key_deactivate(key_id) == key_update("deactivate_api_key", key_id, [is_active |-> FALSE])

key_delete(key_id) ==
    /\ IF ~ObjectId_is_valid(key_id)
       THEN /\ resp' = Ret("delete_api_key", [key_id |-> key_id], Some("InvalidId"), None)
            /\ UNCHANGED api_keys
       ELSE LET r == delete_api_key(api_keys, key_id)
            IN  /\ api_keys' = r.keys
                /\ resp' = Ret("delete_api_key", [key_id |-> key_id], None,
                               Some(r.success))
    /\ UNCHANGED issued
    /\ KeysFrame

utcnow_advances ==
    /\ now < MaxTime
    /\ now' = now + 1
    /\ UNCHANGED <<calls, adventures, users, api_keys, thumbs, issued, lineage, resp>>

InitKeys ==
    /\ now = 0
    /\ calls = NoCalls
    /\ adventures = InitialAdventures(FALSE)
    /\ users = InitialUsers
    /\ \E expires_at \in {None, Some(1)} :
         api_keys = [k \in {"k1"} |-> KeyDoc("n1", "s1", expires_at, TRUE)]
    /\ thumbs = {}
    /\ issued = {"a1", "a2", "k1"}
    /\ lineage = [id \in AdvIds |-> [intact |-> TRUE, picks |-> << >>]]
    /\ resp = Reply("none", NoToken, "", << >>, 0, NoBody)

NextKeys ==
    \/ \E expires_in_days \in {None, Some(1)} : key_generate("n2", expires_in_days)
    \/ \E api_key \in PresentedKeys : key_verify(api_key)
    \/ \E key_id \in KeyIdInputs : key_get(key_id)
    \/ key_list
    \/ \E key_id \in KeyIdInputs, updates \in ServiceUpdates :
         key_update("update_api_key", key_id, updates)
    \/ \E key_id \in KeyIdInputs : key_deactivate(key_id)
    \/ \E key_id \in KeyIdInputs : key_delete(key_id)
    \/ utcnow_advances

SpecKeys == InitKeys /\ [][NextKeys]_vars

(***************************************************************************)
(* verify_api_key on a key collection whose update_one may raise.  The     *)
(* update of last_used is awaited outside any try: when it raises, the     *)
(* exception leaves verify_api_key and the key info is not returned.       *)
(***************************************************************************)
key_verify_store(api_key, update_one_raises) ==
    LET r == verify_api_key(api_keys, api_key)
        args == [api_key |-> api_key,
                 update_one_raises |-> (r.raised = None /\ update_one_raises)]
    IN  /\ IF r.raised = None /\ update_one_raises
           THEN /\ api_keys' = api_keys
                /\ resp' = Ret("verify_api_key", args, Some("update_one raised"), None)
           ELSE /\ api_keys' = r.keys
                /\ resp' = Ret("verify_api_key", args, r.raised, r.info)
        /\ UNCHANGED issued
        /\ KeysFrame

NextKeyFaults ==
    \/ \E api_key \in PresentedKeys, update_one_raises \in BOOLEAN :
         key_verify_store(api_key, update_one_raises)
    \/ \E key_id \in KeyIdInputs, updates \in ServiceUpdates :
         key_update("update_api_key", key_id, updates)
    \/ utcnow_advances

SpecKeyFaults == InitKeys /\ [][NextKeyFaults]_vars

(***************************************************************************)
(* generate_thumbnail_cache_key called again and again; resp keeps the     *)
(* arguments and the keys of the last two calls (of the one call, after    *)
(* the first).                                                             *)
(***************************************************************************)
CacheKeyArgs ==
    [s3_key : ImageKeys, width : {300, 301}, height : {200, 201},
     crop_position : {"center", "top"}, quality : {85, 86}]

CacheKeyOf(t) ==
    generate_thumbnail_cache_key(t.s3_key, t.width, t.height, t.crop_position,
                                 t.quality)

cache_key_call(t) ==
    LET first == IF resp.op = "generate_thumbnail_cache_key" THEN resp.args.second
                 ELSE t
    IN  /\ resp' = Ret("generate_thumbnail_cache_key",
                       [first |-> first, second |-> t], None,
                       Some([first |-> CacheKeyOf(first), second |-> CacheKeyOf(t)]))
        /\ UNCHANGED <<now, calls, adventures, users, api_keys, thumbs, issued, lineage>>

NextCacheKey == \E t \in CacheKeyArgs : cache_key_call(t)

SpecCacheKey == InitKeys /\ [][NextCacheKey]_vars

(***************************************************************************)
(* Concurrent requests on adventure a1 by its owner.  Every handler is     *)
(* split at its awaits on the store: each step below holds one store       *)
(* operation (find_one, update_one, delete_one) and the code up to the     *)
(* next one.  A process serves one request; when the request is answered   *)
(* calls[p] keeps what it did and what it answered.                        *)
(***************************************************************************)
RaceAdventure == "a1"
RaceUser == "u1"
RaceToken == [sub |-> RaceUser, ok |-> TRUE]

RaceStart ==
    <<RootNode(<<"oa", "ob">>),
      [prev_option_index |-> Some(0), prev_option_text |-> Some("oa"),
       text |-> "t1", options |-> <<"oa", "ob">>]>>

RaceIndexInputs == 0 .. Len(RaceStart)
RaceTruncateInputs == 0 .. Len(RaceStart) + 1

Answered(did, args, status, outcome) ==
    [op |-> "done", did |-> did, args |-> args, status |-> status,
     outcome |-> outcome]

Answer(p, did, args, status, outcome) ==
    /\ calls' = [calls EXCEPT ![p] = Answered(did, args, status, outcome)]
    /\ resp' = Reply(did, RaceToken, RaceAdventure, args, status,
                     [generator |-> "not called", outcome |-> outcome])

RaceFrame == UNCHANGED <<now, users, api_keys, thumbs, issued, lineage>>

(***************************************************************************)
(* continue_adventure: the ownership read and the range checks.            *)
(***************************************************************************)
continue_validate(p, start_from_node_id, selected_option) ==
    LET response == get_adventure_for_user(adventures, users, RaceAdventure, RaceUser)
        args == [start_from_node_id |-> start_from_node_id,
                 selected_option |-> selected_option]
    IN  /\ calls[p] = Idle
        /\ IF response.code \in {401, 404}
           THEN Answer(p, "continue", args, response.code, "refused")
           ELSE IF \/ node_out_of_range(Get(response.doc).nodes, start_from_node_id)
                   \/ option_out_of_range(Get(response.doc).nodes,
                                          start_from_node_id, selected_option)
           THEN Answer(p, "continue", args, 400, "refused")
           ELSE /\ calls' = [calls EXCEPT ![p] =
                               [op |-> "continue", pc |-> "generate", args |-> args]]
                /\ UNCHANGED resp
        /\ UNCHANGED adventures
        /\ RaceFrame

(***************************************************************************)
(* generate_new_node reads the adventure again and asks the generator; a   *)
(* missing adventure, an index out of range in the document it read or a   *)
(* generator failure raises and the request is answered 500.               *)
(***************************************************************************)
continue_generate(p, gen) ==
    /\ calls[p].op = "continue" /\ calls[p].pc = "generate"
    /\ LET args == calls[p].args
           new_node == generate_new_node(adventures, RaceAdventure,
                                         args.start_from_node_id,
                                         args.selected_option, gen)
       IN  IF new_node = None
           THEN Answer(p, "continue", args, 500, "raised")
           ELSE /\ calls' = [calls EXCEPT ![p] =
                               [op |-> "continue", pc |-> "append", args |-> args,
                                node |-> [prev_option_index |-> Some(args.selected_option),
                                          prev_option_text |-> Get(new_node).prev_option_text,
                                          text |-> Get(new_node).text,
                                          options |-> Get(new_node).options]]]
                /\ UNCHANGED resp
    /\ UNCHANGED adventures
    /\ RaceFrame

(***************************************************************************)
(* update_adventure_nodes: one $push.  When update_one raises, the         *)
(* function's except returns None; the handler does not look at the        *)
(* result and answers with start_from_node_id + 1 in every case.           *)
(***************************************************************************)
continue_append(p, update_one_raises) ==
    /\ calls[p].op = "continue" /\ calls[p].pc = "append"
    /\ adventures' = IF update_one_raises THEN adventures
                     ELSE update_adventure_nodes(adventures, RaceAdventure, calls[p].node)
    /\ Answer(p, "continue",
              [start_from_node_id |-> calls[p].args.start_from_node_id,
               selected_option |-> calls[p].args.selected_option,
               node |-> calls[p].node,
               node_index |-> calls[p].args.start_from_node_id + 1],
              200,
              IF update_one_raises THEN "update_one raised"
              ELSE IF RaceAdventure \in DOMAIN adventures THEN "pushed"
              ELSE "matched nothing")
    /\ RaceFrame

(***************************************************************************)
(* adventure_truncate: the ownership read, then truncate_adventure, which  *)
(* reads the document, slices its nodes in Python and writes the slice     *)
(* back with $set.  The handler answers 200 whatever truncate_adventure    *)
(* returns.                                                                *)
(***************************************************************************)
truncate_check(p, node_index) ==
    LET response == get_adventure_for_user(adventures, users, RaceAdventure, RaceUser)
        args == [node_index |-> node_index]
    IN  /\ calls[p] = Idle
        /\ IF response.code = 404 THEN Answer(p, "truncate", args, 404, "refused")
           ELSE IF response.code = 401 \/ RaceUser # Get(response.doc).owner_id
           THEN Answer(p, "truncate", args, 401, "refused")
           ELSE /\ calls' = [calls EXCEPT ![p] =
                               [op |-> "truncate", pc |-> "read", args |-> args]]
                /\ UNCHANGED resp
        /\ UNCHANGED adventures
        /\ RaceFrame

truncate_read(p) ==
    /\ calls[p].op = "truncate" /\ calls[p].pc = "read"
    /\ LET doc == get_adventure_by_id(adventures, RaceAdventure)
           node_index == calls[p].args.node_index
       IN  IF doc = None
           THEN Answer(p, "truncate", calls[p].args, 200, "no document")
           ELSE /\ calls' = [calls EXCEPT ![p] =
                               [op |-> "truncate", pc |-> "write", args |-> calls[p].args,
                                truncated_nodes |->
                                    SubSeq(Get(doc).nodes, 1,
                                           Min(node_index, Len(Get(doc).nodes)))]]
                /\ UNCHANGED resp
    /\ UNCHANGED adventures
    /\ RaceFrame

truncate_write(p) ==
    /\ calls[p].op = "truncate" /\ calls[p].pc = "write"
    /\ adventures' = IF RaceAdventure \in DOMAIN adventures
                     THEN [adventures EXCEPT ![RaceAdventure].nodes =
                               calls[p].truncated_nodes]
                     ELSE adventures
    /\ Answer(p, "truncate", calls[p].args, 200,
              IF RaceAdventure \in DOMAIN adventures THEN "set" ELSE "matched nothing")
    /\ RaceFrame

(***************************************************************************)
(* adventure_delete: the ownership read, then delete_one.                  *)
(***************************************************************************)
delete_check(p) ==
    LET response == get_adventure_for_user(adventures, users, RaceAdventure, RaceUser)
    IN  /\ calls[p] = Idle
        /\ IF response.code = 404 THEN Answer(p, "delete", << >>, 404, "refused")
           ELSE IF response.code = 401 \/ RaceUser # Get(response.doc).owner_id
           THEN Answer(p, "delete", << >>, 401, "refused")
           ELSE /\ calls' = [calls EXCEPT ![p] = [op |-> "delete", pc |-> "delete_one"]]
                /\ UNCHANGED resp
        /\ UNCHANGED adventures
        /\ RaceFrame

delete_remove(p) ==
    /\ calls[p].op = "delete" /\ calls[p].pc = "delete_one"
    /\ adventures' = delete_adventure(adventures, RaceAdventure)
    /\ Answer(p, "delete", << >>, 200,
              IF RaceAdventure \in DOMAIN adventures THEN "deleted" ELSE "matched nothing")
    /\ RaceFrame

InitRace ==
    /\ now = 0
    /\ calls = NoCalls
    /\ adventures = [InitialAdventures(FALSE) EXCEPT ![RaceAdventure].nodes = RaceStart]
    /\ users = InitialUsers
    /\ api_keys = InitialKeys
    /\ thumbs = {}
    /\ issued = {"a1", "a2", "k1"}
    /\ lineage = [id \in AdvIds |-> [intact |-> TRUE, picks |-> << >>]]
    /\ resp = Reply("none", RaceToken, RaceAdventure, << >>, 0, NoBody)

NextRace ==
    \/ \E p \in Procs, start_from_node_id \in RaceIndexInputs, selected_option \in {0, 2} :
         continue_validate(p, start_from_node_id, selected_option)
    \/ \E p \in Procs, gen \in GenResults : continue_generate(p, gen)
    \/ \E p \in Procs, update_one_raises \in BOOLEAN : continue_append(p, update_one_raises)
    \/ \E p \in Procs, node_index \in RaceTruncateInputs : truncate_check(p, node_index)
    \/ \E p \in Procs : truncate_read(p)
    \/ \E p \in Procs : truncate_write(p)
    \/ \E p \in Procs : delete_check(p)
    \/ \E p \in Procs : delete_remove(p)

SpecRace == InitRace /\ [][NextRace]_vars

(***************************************************************************)
(* DELETE /admin/users/{user_id} with its awaits as separate steps, in a   *)
(* deployment with two admins (adm and u2) who may each ask to delete the  *)
(* other.  The dependency verify_admin_token and the self-deletion test    *)
(* run first, then get_user_by_id, then us.delete_user.                    *)
(***************************************************************************)
DeleteUserCallers == {"adm", "u2", "u1"}
DeleteUserTargets == {"adm", "u2", "gone"}

DeleteUserFrame == UNCHANGED <<now, adventures, api_keys, thumbs, issued, lineage>>

DeleteUserReply(call, status) ==
    AdminReply("delete_user_admin", call.token, users, [user_id |-> call.user_id],
               status, None)

delete_user_gate(p, token, user_id) ==
    LET gate == AdminGate(users, token)
        call == [op |-> "delete_user_admin", pc |-> "get_user_by_id",
                 token |-> token, user_id |-> user_id]
    IN  /\ calls[p] = Idle
        /\ IF gate.admin_id = None
           THEN resp' = DeleteUserReply(call, gate.status) /\ UNCHANGED calls
           ELSE IF user_id = Get(gate.admin_id)
           THEN resp' = DeleteUserReply(call, 400) /\ UNCHANGED calls
           ELSE calls' = [calls EXCEPT ![p] = call] /\ UNCHANGED resp
        /\ UNCHANGED users
        /\ DeleteUserFrame

delete_user_lookup(p) ==
    /\ calls[p].op = "delete_user_admin" /\ calls[p].pc = "get_user_by_id"
    /\ IF get_user_by_id(users, calls[p].user_id) = None
       THEN /\ resp' = DeleteUserReply(calls[p], 404)
            /\ calls' = [calls EXCEPT ![p] = Idle]
       ELSE /\ calls' = [calls EXCEPT ![p].pc = "delete_user"]
            /\ UNCHANGED resp
    /\ UNCHANGED users
    /\ DeleteUserFrame

delete_user_remove(p) ==
    /\ calls[p].op = "delete_user_admin" /\ calls[p].pc = "delete_user"
    /\ IF "delete_user" \notin UserServiceNames
       THEN resp' = DeleteUserReply(calls[p], 500) /\ UNCHANGED users
       ELSE /\ users' = [u \in DOMAIN users \ {calls[p].user_id} |-> users[u]]
            /\ resp' = DeleteUserReply(calls[p], 200)
    /\ calls' = [calls EXCEPT ![p] = Idle]
    /\ DeleteUserFrame

InitDeleteUser ==
    /\ now = 0
    /\ calls = NoCalls
    /\ adventures = InitialAdventures(FALSE)
    /\ users = [InitialUsers EXCEPT !["u2"].role = "admin"]
    /\ api_keys = InitialKeys
    /\ thumbs = {}
    /\ issued = {"a1", "a2", "k1"}
    /\ lineage = [id \in AdvIds |-> [intact |-> TRUE, picks |-> << >>]]
    /\ resp = Reply("none", NoToken, "", << >>, 0, NoBody)

NextDeleteUser ==
    \/ \E p \in Procs, sub \in DeleteUserCallers, user_id \in DeleteUserTargets :
         delete_user_gate(p, [prefix |-> "eyJ", sub |-> sub, ok |-> TRUE], user_id)
    \/ \E p \in Procs : delete_user_lookup(p)
    \/ \E p \in Procs : delete_user_remove(p)

SpecDeleteUser == InitDeleteUser /\ [][NextDeleteUser]_vars

(***************************************************************************)
(* clone_adventure with its awaits as separate steps, next to Continue     *)
(* and Truncate requests on the source.  clone_read is the ownership       *)
(* read; the call then holds the document it read (original_adventure)     *)
(* in its local variables.  clone_resume runs the call from one await to   *)
(* the next: create_adventure first, then one update_adventure_nodes per   *)
(* node of original_adventure['nodes'].  clone_crash ends the worker       *)
(* between two steps; nothing is rolled back.                              *)
(***************************************************************************)
CloneCallers == {"u1", "u2"}

CloneFrame == UNCHANGED <<now, users, api_keys, thumbs, lineage>>

clone_read(p, user_id) ==
    LET original_adventure == get_adventure_for_user(adventures, users,
                                                     RaceAdventure, user_id)
        args == [user_id |-> user_id]
    IN  /\ calls[p] = Idle
        /\ IF original_adventure.code = 404
           THEN Answer(p, "clone", args, 500, "Adventure not found")
           ELSE IF original_adventure.code = 401
           THEN Answer(p, "clone", args, 500,
                       "User not authorized to access this adventure")
           ELSE /\ calls' = [calls EXCEPT ![p] =
                               [op |-> "clone", pc |-> "create_adventure",
                                args |-> args,
                                original_adventure |-> Get(original_adventure.doc)]]
                /\ UNCHANGED resp
        /\ UNCHANGED <<adventures, issued>>
        /\ CloneFrame

clone_resume(p) ==
    /\ calls[p].op = "clone"
    /\ LET call == calls[p]
           original == call.original_adventure
       IN  IF call.pc = "create_adventure"
           THEN \E new_id \in FreshIds(issued) :
                  LET cloned_adventure ==
                          [owner_id |-> call.args.user_id, is_public |-> FALSE,
                           userPrompt |-> original.userPrompt,
                           title |-> "(copy) " \o original.title,
                           clone_of |-> Some(RaceAdventure),
                           image |-> original.image, nodes |-> << >>]
                      result == create_adventure(adventures, new_id, cloned_adventure)
                  IN  IF result = None
                      THEN /\ Answer(p, "clone", call.args, 500, "NameError")
                           /\ UNCHANGED <<adventures, issued>>
                      ELSE /\ adventures' = Get(result)
                           /\ issued' = issued \cup {new_id}
                           /\ IF original.nodes = << >>
                              THEN Answer(p, "clone",
                                          [user_id |-> call.args.user_id,
                                           adventure_id |-> new_id], 200, "cloned")
                              ELSE /\ calls' = [calls EXCEPT ![p] =
                                                  [op |-> "clone",
                                                   pc |-> "update_adventure_nodes",
                                                   args |-> call.args,
                                                   original_adventure |-> original,
                                                   inserted_id |-> new_id,
                                                   copied |-> 0]]
                                   /\ UNCHANGED resp
           ELSE /\ adventures' = update_adventure_nodes(
                                     adventures, call.inserted_id,
                                     cloned_node(original.nodes[call.copied + 1]))
                /\ UNCHANGED issued
                /\ IF call.copied + 1 = Len(original.nodes)
                   THEN Answer(p, "clone",
                               [user_id |-> call.args.user_id,
                                adventure_id |-> call.inserted_id], 200, "cloned")
                   ELSE /\ calls' = [calls EXCEPT ![p].copied = call.copied + 1]
                        /\ UNCHANGED resp
    /\ CloneFrame

clone_crash(p) ==
    /\ calls[p].op = "clone"
    /\ calls' = [calls EXCEPT ![p] =
                   [op |-> "crashed", did |-> "clone", was |-> calls[p]]]
    /\ UNCHANGED <<resp, adventures, issued>>
    /\ CloneFrame

NextClone ==
    \/ \E p \in Procs, user_id \in CloneCallers : clone_read(p, user_id)
    \/ \E p \in Procs : clone_resume(p)
    \/ \E p \in Procs : clone_crash(p)
    \/ \E p \in Procs, start_from_node_id \in RaceIndexInputs, selected_option \in {0, 2} :
         continue_validate(p, start_from_node_id, selected_option)
    \/ \E p \in Procs, gen \in GenResults : continue_generate(p, gen)
    \/ \E p \in Procs, update_one_raises \in BOOLEAN : continue_append(p, update_one_raises)
    \/ \E p \in Procs, node_index \in RaceTruncateInputs : truncate_check(p, node_index)
    \/ \E p \in Procs : truncate_read(p)
    \/ \E p \in Procs : truncate_write(p)

SpecClone == InitRace /\ [][NextClone]_vars

(***************************************************************************)
(* The adventure endpoints after the record of user u1 has left the user   *)
(* collection while u1's signed token is still valid (a token lives        *)
(* ACCESS_TOKEN_EXPIRE_MINUTES, a week by default) and u1's adventure a1   *)
(* is still stored.                                                        *)
(***************************************************************************)
DeletedUsers == {"u1"}

InitOrphan ==
    /\ now = 0
    /\ calls = NoCalls
    /\ \E pub \in BOOLEAN : adventures = InitialAdventures(pub)
    /\ users = [u \in UserIds \ DeletedUsers |-> InitialUsers[u]]
    /\ api_keys = InitialKeys
    /\ thumbs = {}
    /\ issued = {"a1", "a2", "k1"}
    /\ lineage = [id \in AdvIds |-> [intact |-> TRUE, picks |-> << >>]]
    /\ resp = Reply("none", [sub |-> "u1", ok |-> TRUE], "a1", << >>, 0, NoBody)

SpecOrphan == InitOrphan /\ [][Next]_vars

(***************************************************************************)
(* Vocabulary of the properties.                                           *)
(***************************************************************************)
IsAdmin(I) ==
    I \in DOMAIN users /\ "role" \in DOMAIN users[I] /\ users[I].role = "admin"
Exists(a) == a \in DOMAIN adventures
CanAccess(I, a) ==
    IsAdmin(I) \/ adventures[a].is_public \/ adventures[a].owner_id = I
Caller == resp.token.sub
Target == resp.adventure_id

(***************************************************************************)
(* C1: the ownership check answers 404 when no adventure has the id,       *)
(* the adventure exactly when the identity is an admin, or the adventure   *)
(* is public, or the identity owns it, and 401 in every other case.        *)
(***************************************************************************)
C1_OwnershipCheck ==
    \A I \in UserIds \cup {"gone"}, a \in AdvIds \cup {MalformedId} :
      LET r == get_adventure_for_user(adventures, users, a, I)
      IN  IF ~Exists(a) THEN r.code = 404
          ELSE IF CanAccess(I, a) THEN r.code = 200 /\ r.doc = {adventures[a]}
          ELSE r.code = 401

C1_Witness ==
    /\ resp.op = "nodes" /\ resp.status = 200
    /\ Caller = "u2" /\ Exists(Target)
    /\ adventures[Target].is_public /\ adventures[Target].owner_id # Caller

(***************************************************************************)
(* C2: on every endpoint that resolves ownership, a non-admin, non-owner   *)
(* caller asking for an existing non-public adventure gets an              *)
(* authorization failure, never a not-found.                               *)
(***************************************************************************)
OwnershipEndpoints ==
    {"nodes", "continue", "delete", "truncate", "cover_update", "thumbnail"}

C2_ForbiddenNotNotFound ==
    /\ (/\ resp.op \in OwnershipEndpoints /\ resp.token.ok
         /\ Exists(Target) /\ ~CanAccess(Caller, Target))
        => resp.status \in {401, 403}
    /\ (resp.op \in OwnershipEndpoints /\ resp.status = 404) => ~Exists(Target)

(***************************************************************************)
(* C3: an admin can delete and can truncate any existing adventure, also   *)
(* one owned by somebody else.                                             *)
(***************************************************************************)
C3_AdminDeletesAndTruncatesAny ==
    [][(/\ resp'.op \in {"delete", "truncate"} /\ resp'.token.ok
        /\ IsAdmin(resp'.token.sub) /\ Exists(resp'.adventure_id))
       => resp'.status = 200]_vars

(***************************************************************************)
(* C4: a Continue whose start_from_node index is not in 0..len(nodes)-1,   *)
(* or whose selected_option is not in 0..len(options)-1 of that node,      *)
(* fails with a bad-request error, without calling the story generator     *)
(* and without changing the node sequence.  (Indices are integers; the     *)
(* request reached the range checks, i.e. its caller passed the ownership  *)
(* check.)                                                                 *)
(***************************************************************************)
OutOfRange(nodes, args) ==
    LET s == args.start_from_node_id
        o == args.selected_option
    IN  /\ s # None
        /\ \/ Get(s) \notin 0 .. Len(nodes) - 1
           \/ /\ o # None
              /\ Get(o) \notin 0 .. Len(nodes[Get(s) + 1].options) - 1

C4_ContinueRangeValidation ==
    [][(/\ resp'.op = "continue" /\ resp'.args # << >>
        /\ Exists(resp'.adventure_id)
        /\ OutOfRange(adventures[resp'.adventure_id].nodes, resp'.args))
       => /\ resp'.status = 400
          /\ resp'.body.generator = "not called"
          /\ adventures' = adventures]_vars

C4_Witness ==
    /\ resp.op = "continue" /\ resp.status = 400
    /\ resp.args.start_from_node_id = Some(0) /\ resp.args.selected_option = Some(2)
    /\ Exists(Target) /\ Len(adventures[Target].nodes[1].options) = 2

(***************************************************************************)
(* C5: after N successful Continues on a freshly started adventure with    *)
(* no truncation in between, the adventure has N+1 nodes, node 0 has no    *)
(* prev_option_index, node i carries the option index chosen by the i-th   *)
(* Continue and that option's literal text, and a Continue never changes   *)
(* a node appended earlier.                                                *)
(***************************************************************************)
AppendThenList(a) ==
    LET nodes == adventures[a].nodes
        picks == lineage[a].picks
    IN  /\ Len(nodes) = Len(picks) + 1
        /\ nodes[1].prev_option_index = None
        /\ \A i \in 1 .. Len(picks) :
             /\ nodes[i + 1].prev_option_index = Some(picks[i].index)
             /\ nodes[i + 1].prev_option_text = Some(picks[i].text)

C5_AppendThenList ==
    /\ [](\A a \in DOMAIN adventures : lineage[a].intact => AppendThenList(a))
    /\ [][(resp'.op = "continue" /\ resp'.status = 200)
          => LET a == resp'.adventure_id
             IN  SubSeq(adventures'[a].nodes, 1, Len(adventures[a].nodes))
                     = adventures[a].nodes]_vars

C5_Witness ==
    /\ resp.op = "continue" /\ resp.status = 200
    /\ lineage[Target].intact
    /\ Len(lineage[Target].picks) = 2
    /\ lineage[Target].picks[1].index # lineage[Target].picks[2].index

(***************************************************************************)
(* C6: the node_index a successful Continue returns is the position at     *)
(* which the new node was appended, for any valid start_from_node index.   *)
(***************************************************************************)
C6_ReturnedIndexIsAppendPosition ==
    (resp.op = "continue" /\ resp.status = 200)
    => resp.body.node_index = Len(adventures[Target].nodes) - 1

(***************************************************************************)
(* C7: Truncate with k >= 0 by an authorized caller leaves the first       *)
(* min(k, len) nodes, unchanged and in order, and applying the same        *)
(* truncation again changes nothing.                                       *)
(***************************************************************************)
C7_TruncatePrefixIdempotent ==
    [][(/\ resp'.op = "truncate" /\ resp'.status = 200
        /\ resp'.args.node_index >= 0)
       => LET a == resp'.adventure_id
              k == resp'.args.node_index
              before == adventures[a].nodes
          IN  /\ adventures'[a].nodes = SubSeq(before, 1, Min(k, Len(before)))
              /\ truncate_adventure(adventures', a, k) = adventures'
              /\ \A b \in DOMAIN adventures \ {a} : adventures'[b] = adventures[b]
              /\ DOMAIN adventures' = DOMAIN adventures]_vars

C7_Witness ==
    /\ resp.op = "truncate" /\ resp.status = 200
    /\ resp.args.node_index = 1 /\ resp.args.dropped = 2
    /\ Len(adventures[Target].nodes) = 1

(***************************************************************************)
(* C8: a Truncate whose node_index is negative is rejected with a          *)
(* bad-request error and leaves the node sequence unchanged.               *)
(***************************************************************************)
C8_NegativeTruncateRejected ==
    (resp.op = "truncate" /\ resp.args # << >> /\ resp.args.node_index < 0)
    => resp.status = 400

(***************************************************************************)
(* C9: Start by an authenticated user whose generators answered returns    *)
(* successfully, and then the store holds a new adventure with the         *)
(* returned id, owned by the caller, with exactly one node whose           *)
(* prev_option_index and prev_option_text are null.                        *)
(***************************************************************************)
C9_StartPersistsOneNode ==
    (resp.op = "start" /\ resp.token.ok)
    => IF resp.status = 200
       THEN LET a == resp.body.adventure_id
            IN  /\ Exists(a)
                /\ adventures[a].owner_id = Caller
                /\ Len(adventures[a].nodes) = 1
                /\ adventures[a].nodes[1].prev_option_index = None
                /\ adventures[a].nodes[1].prev_option_text = None
       ELSE resp.body.generator = "failed"

(***************************************************************************)
(* C10: when the story generator (or, in Start, the cover image step)      *)
(* fails, the call answers with a server error and the store is            *)
(* unchanged: no adventure is created and no node is appended.             *)
(***************************************************************************)
C10_GeneratorFailureLeavesStore ==
    [][(resp'.op \in {"start", "continue"} /\ resp'.body.generator = "failed")
       => resp'.status = 500 /\ adventures' = adventures]_vars

C10_Witness ==
    /\ resp.op = "continue" /\ resp.body.generator = "failed"
    /\ resp.status = 500

(***************************************************************************)
(* C11: a Clone of adventure A by an identity that passes the ownership    *)
(* check for A completes with a new adventure B, distinct from A, owned    *)
(* by the acting identity, with clone_of = A's id, A's title prefixed      *)
(* with "(copy) " and A's nodes copied position by position; a Clone by    *)
(* an identity that fails the ownership check creates nothing.             *)
(***************************************************************************)
IsCloneOf(B, A, I, before, after) ==
    /\ B # A
    /\ after[B].owner_id = I
    /\ after[B].clone_of = Some(A)
    /\ after[B].title = "(copy) " \o before[A].title
    /\ Len(after[B].nodes) = Len(before[A].nodes)
    /\ \A i \in 1 .. Len(before[A].nodes) :
         after[B].nodes[i] = cloned_node(before[A].nodes[i])

C11_CloneCopies ==
    [][resp'.op = "clone"
       => LET A == resp'.adventure_id
              I == resp'.token.sub
          IN  IF Exists(A) /\ CanAccess(I, A)
              THEN /\ resp'.status = 200
                   /\ \E B \in DOMAIN adventures' \ DOMAIN adventures :
                        IsCloneOf(B, A, I, adventures, adventures')
              ELSE adventures' = adventures]_vars

(***************************************************************************)
(* C12: a Clone of A yields a B with B.clone_of = A's id; from then on     *)
(* B.clone_of stays A's id, no Continue, Truncate or Delete applied to B   *)
(* changes A's node sequence, and none applied to A changes B's.           *)
(***************************************************************************)
Mutations == {"continue", "truncate", "delete"}

NodesKept(a) ==
    a \in DOMAIN adventures
    => a \in DOMAIN adventures' /\ adventures'[a].nodes = adventures[a].nodes

C12_CloneIndependence ==
    [][/\ (/\ resp'.op = "clone"
           /\ Exists(resp'.adventure_id)
           /\ CanAccess(resp'.token.sub, resp'.adventure_id))
          => \E B \in DOMAIN adventures' :
               adventures'[B].clone_of = Some(resp'.adventure_id)
       /\ \A B \in DOMAIN adventures :
            adventures[B].clone_of # None
            => LET A == Get(adventures[B].clone_of)
               IN  /\ B \in DOMAIN adventures'
                      => adventures'[B].clone_of = Some(A)
                   /\ (resp'.op \in Mutations /\ resp'.adventure_id = B)
                      => NodesKept(A)
                   /\ (resp'.op \in Mutations /\ resp'.adventure_id = A)
                      => NodesKept(B)]_vars

(***************************************************************************)
(* C13: List for identity I returns exactly the adventures whose owner_id  *)
(* is I or whose is_public flag is true, one summary each, with a node     *)
(* count equal to the length of the node sequence and without the nodes.   *)
(***************************************************************************)
C13_ListOwnedOrPublic ==
    (resp.op = "list" /\ resp.status = 200)
    => LET listed == resp.body.adventures
           visible == {a \in DOMAIN adventures :
                         adventures[a].owner_id = Caller \/ adventures[a].is_public}
       IN  /\ {s.id : s \in listed} = visible
           /\ Cardinality(listed) = Cardinality(visible)
           /\ \A s \in listed :
                /\ s.numNodes = Len(adventures[s.id].nodes)
                /\ "nodes" \notin DOMAIN s

C13_Witness ==
    /\ resp.op = "list" /\ resp.status = 200 /\ Caller = "u2"
    /\ Exists("a1") /\ adventures["a1"].is_public
    /\ [id |-> "a1", title |-> "T1", numNodes |-> 2] \in resp.body.adventures
    /\ Cardinality(resp.body.adventures) = 2

(***************************************************************************)
(* C14: a successful Delete removes the adventure document with its        *)
(* nodes; a deleted adventure never comes back, is in no later List        *)
(* result, and every later get-nodes, Continue, Truncate, Clone or Delete  *)
(* on its id (by an authenticated caller) answers not-found.               *)
(***************************************************************************)
Deleted(a) == a \in issued /\ a \notin DOMAIN adventures

C14_DeletedStaysGone ==
    [][/\ (resp'.op = "delete" /\ resp'.status = 200)
          => /\ resp'.adventure_id \in DOMAIN adventures
             /\ resp'.adventure_id \notin DOMAIN adventures'
       /\ \A a \in AdvIds : Deleted(a) => (a \in issued' /\ a \notin DOMAIN adventures')
       /\ (/\ resp'.op \in {"nodes", "continue", "truncate", "delete"}
           /\ resp'.token.ok /\ Deleted(resp'.adventure_id))
          => resp'.status = 404
       /\ (resp'.op = "clone" /\ Deleted(resp'.adventure_id))
          => (resp'.status # 200 /\ resp'.body.error = "Adventure not found")
       /\ (resp'.op = "list" /\ resp'.status = 200)
          => \A s \in resp'.body.adventures : ~Deleted(s.id)]_vars

C14_Witness ==
    /\ Deleted("a1")
    /\ resp.op = "continue" /\ resp.status = 404 /\ Target = "a1"

(***************************************************************************)
(* C15: a bearer string that matches neither the token shape nor the key   *)
(* shape, or that matches a shape and fails its verification (bad token;   *)
(* unknown, inactive or expired key), is answered 401 and no other         *)
(* status.                                                                 *)
(***************************************************************************)
AuthGates == {"require_user_auth", "require_api_key_auth", "require_any_auth"}

TokenVerifies(token) == token.prefix = "eyJ" /\ token.ok

KeyVerifies(keys, token) ==
    /\ token.prefix = "ak_"
    /\ \E k \in DOMAIN keys :
         /\ keys[k].key_hash = sha256(token)
         /\ keys[k].is_active
         /\ (keys[k].expires_at = None \/ Get(keys[k].expires_at) >= now)

C15_InvalidCredentialIs401 ==
    (/\ resp.op \in AuthGates
     /\ ~TokenVerifies(resp.token)
     /\ ~KeyVerifies(api_keys, resp.token))
    => resp.status = 401

GateAnswers(gate, principal, status, value) ==
    IF gate = "require_user_auth"
    THEN IF principal.type = "user"
         THEN status = 200 /\ value = Some(principal.id)
         ELSE status = 403 /\ value = None
    ELSE IF gate = "require_api_key_auth"
    THEN IF principal.type = "api_key"
         THEN status = 200 /\ value = Some(principal.info)
         ELSE status = 403 /\ value = None
    ELSE status = 200 /\ value = Some(principal)

C17_GatesByPrincipalKind ==
    /\ (resp.op \in AuthGates /\ resp.body.auth_result # None)
       => GateAnswers(resp.op, Get(resp.body.auth_result),
                      resp.status, resp.body.value)
    /\ \A p \in Principals :
         /\ GateAnswers("require_user_auth", p,
                        require_user_auth(p).status, require_user_auth(p).value)
         /\ GateAnswers("require_api_key_auth", p,
                        require_api_key_auth(p).status, require_api_key_auth(p).value)
         /\ GateAnswers("require_any_auth", p,
                        require_any_auth(p).status, require_any_auth(p).value)

C17_Witness ==
    /\ resp.op = "require_user_auth" /\ resp.status = 403
    /\ resp.body.auth_result # None
    /\ Get(resp.body.auth_result).type = "api_key"

(***************************************************************************)
(* C18: the admin check succeeds iff a User record exists for the acting   *)
(* identity and its role is exactly "admin"; for a missing user, a user    *)
(* without a role field, a malformed id or a failing lookup it answers     *)
(* not-admin, and the gate then fails with 403 and no other error.         *)
(***************************************************************************)
GatedEndpoints ==
    {"create_api_key", "list_all_api_keys", "get_api_key_info",
     "update_api_key_info", "deactivate_api_key_endpoint",
     "delete_api_key_endpoint", "create_user_admin", "delete_user_admin"}

Identities == UserIds \cup NewUserIds \cup KeyIds \cup {"gone", MalformedId}

Authenticated(token) == TokenVerifies(token) \/ KeyVerifies(api_keys, token)

ActingIdentity(token) ==
    IF token.prefix = "eyJ" THEN token.sub
    ELSE CHOOSE k \in DOMAIN api_keys : api_keys[k].key_hash = sha256(token)

C18_AdminCheck ==
    [][/\ \A I \in Identities :
            /\ is_user_admin(users, I) <=> IsAdmin(I)
            /\ ~is_user_admin(StoreDown, I)
       /\ (resp'.op \in GatedEndpoints /\ Authenticated(resp'.token))
          => IF IsAdmin(ActingIdentity(resp'.token)) /\ ~resp'.body.lookup_failed
             THEN resp'.status # 403
             ELSE resp'.status = 403]_vars

C18_Witness ==
    /\ resp.op = "list_all_api_keys" /\ resp.status = 403
    /\ resp.token.prefix = "eyJ" /\ resp.token.ok /\ resp.token.sub = "u1"
    /\ users["u1"].role = "Admin"
    /\ ~resp.body.lookup_failed

(***************************************************************************)
(* C19: no admin endpoint (API-key create, list, get, update, deactivate,  *)
(* delete; user create, user delete; debug-role lookup) performs its       *)
(* effect or returns its data for a caller who is not an admin: the        *)
(* caller gets 401 or 403 and the key store and the user store are         *)
(* unchanged.                                                              *)
(***************************************************************************)
AdminEndpoints == GatedEndpoints \cup {"debug_user_role"}

CallerIsAdmin(token) == TokenVerifies(token) /\ IsAdmin(token.sub)

C19_AdminEndpointsGated ==
    [][(resp'.op \in AdminEndpoints /\ ~CallerIsAdmin(resp'.token))
       => /\ resp'.status \in {401, 403}
          /\ resp'.body.data = None
          /\ api_keys' = api_keys
          /\ users' = users]_vars

(***************************************************************************)
(* C20: an admin's request to delete the user with the admin's own id is   *)
(* rejected with 400 and the admin's record stays; an admin's request to   *)
(* delete a different existing user succeeds and removes that user.        *)
(***************************************************************************)
C20_DeleteUserSelfGuard ==
    [][(/\ resp'.op = "delete_user_admin" /\ resp'.args # << >>
        /\ CallerIsAdmin(resp'.token))
       => LET user_id == resp'.args.user_id
          IN  IF user_id = resp'.token.sub
              THEN resp'.status = 400 /\ users' = users
              ELSE (user_id \in DOMAIN users /\ ~resp'.body.lookup_failed)
                   => (resp'.status = 200 /\ user_id \notin DOMAIN users')]_vars

(***************************************************************************)
(* C21: in every reachable state, under any sequence and interleaving of   *)
(* public registrations and admin user creations, no two User records      *)
(* have the same email compared case-insensitively; a registration whose   *)
(* email matches an existing record fails and creates no record.           *)
(***************************************************************************)
EmailTaken(email) == \E u \in DOMAIN users : lower(users[u].email) = lower(email)

EmailsUnique ==
    \A u, v \in DOMAIN users :
        u # v => lower(users[u].email) # lower(users[v].email)

C21_EmailUnique ==
    [][/\ EmailsUnique'
       /\ (/\ resp' # resp
           /\ resp'.op \in {"register", "create_user_admin"}
           /\ EmailTaken(resp'.args.email))
          => (resp'.status # 200 /\ users' = users)]_vars

(***************************************************************************)
(* C22: in every reachable state the API-key store holds only the digest   *)
(* of each key and never its plaintext secret; the plaintext is returned   *)
(* only by the Generate call that created the key, and the results of      *)
(* GetById and List never contain the plaintext or the digest of any key.  *)
(***************************************************************************)
StoredFields ==
    {"name", "key_hash", "scopes", "expires_at", "created_at", "is_active",
     "last_used"}

Plaintexts == {ApiKey(secret) : secret \in Secrets}

KeyMaterial == {"api_key", "key_hash"}

Returned == IF "value" \in DOMAIN resp.body THEN resp.body.value ELSE None

C22_OnlyDigestStored ==
    /\ \A k \in DOMAIN api_keys :
         /\ DOMAIN api_keys[k] = StoredFields
         /\ api_keys[k].key_hash = sha256(ApiKey(SecretOf(k)))
         /\ api_keys[k].key_hash \notin Plaintexts
    /\ (resp.op = "get_api_key_by_id" /\ Returned # None)
         => DOMAIN Get(Returned) \cap KeyMaterial = {}
    /\ resp.op = "list_api_keys"
         => \A info \in Get(Returned) : DOMAIN info \cap KeyMaterial = {}
    /\ (resp.op = "verify_api_key" /\ Returned # None)
         => DOMAIN Get(Returned) \cap KeyMaterial = {}
    /\ resp.op \in {"update_api_key", "deactivate_api_key", "delete_api_key"}
         => Returned \subseteq BOOLEAN
    /\ resp.op = "generate_api_key"
         => Get(Returned).api_key = ApiKey(SecretOf(Get(Returned).key_id))

C22_Witness ==
    /\ resp.op = "list_api_keys"
    /\ \E info \in Get(Returned) : info.key_id = "k2"
    /\ "k2" \in DOMAIN api_keys
    /\ api_keys["k2"].key_hash = sha256(ApiKey("s2"))

(***************************************************************************)
(* C23: API-key verification fails with a distinct reason in each of       *)
(* these cases: the presented string lacks the key prefix, no record       *)
(* matches its digest, the matching record is inactive, the matching       *)
(* record's expires_at is earlier than now; a matching active key with     *)
(* expires_at = null never fails on expiry, whatever the current time.     *)
(* (An inactive record is reported as inactive whether or not it has       *)
(* expired as well.)                                                       *)
(***************************************************************************)
Matching(api_key) == {k \in DOMAIN api_keys : api_keys[k].key_hash = sha256(api_key)}

Presented == resp'.args.api_key

(* Every step but the clock's is a call of the service. *)
Called(op) == now' = now /\ resp'.op = op

C23_VerifyReasons ==
    [][Called("verify_api_key") =>
       LET rec == api_keys[CHOOSE k \in Matching(Presented) : TRUE]
           reason == resp'.body.raised
           format == Presented.prefix # "ak_"
           missing == ~format /\ Matching(Presented) = {}
           inactive == ~format /\ ~missing /\ ~rec.is_active
           expired == /\ ~format /\ ~missing /\ rec.is_active
                      /\ rec.expires_at # None /\ Get(rec.expires_at) < now
       IN  /\ format => reason = Some("Invalid API key format")
           /\ missing => reason = Some("Invalid API key")
           /\ inactive => reason = Some("API key is inactive")
           /\ expired => reason = Some("API key expired")
           /\ (~format /\ ~missing /\ rec.is_active /\ rec.expires_at = None)
                => (reason = None /\ resp'.body.value # None)
           /\ \A a, b \in {"format", "missing", "inactive", "expired"} :
                LET Says(c) == CASE c = "format" -> format [] c = "missing" -> missing
                                 [] c = "inactive" -> inactive [] OTHER -> expired
                    ReasonOf(c) == CASE c = "format" -> "Invalid API key format"
                                     [] c = "missing" -> "Invalid API key"
                                     [] c = "inactive" -> "API key is inactive"
                                     [] OTHER -> "API key expired"
                IN  (Says(a) /\ reason = Some(ReasonOf(b))) => a = b]_vars

C23_Witness ==
    /\ resp.op = "verify_api_key"
    /\ resp.args.api_key = ApiKey("s1")
    /\ resp.body.raised = Some("API key expired")
    /\ api_keys["k1"].is_active
    /\ Get(api_keys["k1"].expires_at) < now

(***************************************************************************)
(* C24: key Update applies only the fields name, scopes and is_active      *)
(* from the request and silently ignores every other field (key_hash,      *)
(* created_at, expires_at and last_used are never changed by Update); it   *)
(* returns true iff a stored field was actually changed, and returns       *)
(* false without writing when the request contains no allowed field.       *)
(***************************************************************************)
UpdatableFields == {"name", "scopes", "is_active"}

C24_UpdateAllowedFieldsOnly ==
    [][(Called("update_api_key") /\ resp'.body.raised = None) =>
       LET key_id == resp'.args.key_id
           updates == resp'.args.updates
       IN  /\ DOMAIN api_keys' = DOMAIN api_keys
           /\ \A k \in DOMAIN api_keys, f \in StoredFields :
                api_keys'[k][f] =
                  IF k = key_id /\ f \in UpdatableFields \cap DOMAIN updates
                  THEN updates[f] ELSE api_keys[k][f]
           /\ resp'.body.value = Some(api_keys' # api_keys)
           /\ (DOMAIN updates \cap UpdatableFields = {})
                => (resp'.body.value = Some(FALSE) /\ api_keys' = api_keys)]_vars

C24_Witness ==
    /\ resp.op = "update_api_key"
    /\ resp.args.key_id = "k1"
    /\ DOMAIN resp.args.updates = {"name", "key_hash"}
    /\ resp.body.value = Some(TRUE)
    /\ api_keys["k1"].name = "n9"
    /\ api_keys["k1"].key_hash = sha256(ApiKey("s1"))

(***************************************************************************)
(* C25: after Deactivate of a key, every verification of that key's        *)
(* secret fails as inactive until an Update sets is_active back to true;   *)
(* after Delete of a key, every later verification of its secret fails as  *)
(* not found; Delete returns true iff a record with that id existed, so a  *)
(* second Delete of the same id returns false.                             *)
(***************************************************************************)
DeletedKeys == (KeyIds \cap issued) \ DOMAIN api_keys

C25_DeactivateAndDelete ==
    [][/\ (/\ Called("deactivate_api_key") /\ resp'.body.raised = None
           /\ resp'.args.key_id \in DOMAIN api_keys)
          => /\ resp'.args.key_id \in DOMAIN api_keys'
             /\ ~api_keys'[resp'.args.key_id].is_active
       /\ \A k \in DOMAIN api_keys :
            (~api_keys[k].is_active /\ Called("verify_api_key")
             /\ Presented = ApiKey(SecretOf(k)))
            => resp'.body.raised = Some("API key is inactive")
       /\ \A k \in DOMAIN api_keys \cap DOMAIN api_keys' :
            (~api_keys[k].is_active /\ api_keys'[k].is_active)
            => /\ Called("update_api_key") /\ resp'.args.key_id = k
               /\ "is_active" \in DOMAIN resp'.args.updates
               /\ resp'.args.updates.is_active
       /\ \A k \in DeletedKeys :
            /\ k \notin DOMAIN api_keys'
            /\ (Called("verify_api_key") /\ Presented = ApiKey(SecretOf(k)))
               => resp'.body.raised = Some("Invalid API key")
       /\ (Called("delete_api_key") /\ resp'.body.raised = None)
          => /\ resp'.body.value = Some(resp'.args.key_id \in DOMAIN api_keys)
             /\ resp'.args.key_id \notin DOMAIN api_keys']_vars

C25_Witness ==
    /\ resp.op = "delete_api_key"
    /\ resp.args.key_id = "k1"
    /\ resp.body.value = Some(FALSE)
    /\ "k1" \in DeletedKeys

(***************************************************************************)
(* C26: for an authenticated admin, the API-key get, update, deactivate    *)
(* and delete endpoints answer 404 when the key id does not exist (or,     *)
(* for update, when nothing was changed) and 200 otherwise; a not-found    *)
(* outcome is never reported as a server error.  (Stated for well-formed   *)
(* key ids and, for update, a request with at least one field.)            *)
(***************************************************************************)
KeyEndpoints ==
    {"get_api_key_info", "update_api_key_info", "deactivate_api_key_endpoint",
     "delete_api_key_endpoint"}

C26_KeyNotFoundIs404 ==
    [][(/\ resp'.op \in KeyEndpoints /\ resp'.args # << >>
        /\ CallerIsAdmin(resp'.token)
        /\ ObjectId_is_valid(resp'.args.key_id)
        /\ resp'.op = "update_api_key_info" => resp'.args.updates # << >>)
       => IF \/ resp'.args.key_id \notin DOMAIN api_keys
             \/ (resp'.op = "update_api_key_info" /\ api_keys' = api_keys)
          THEN resp'.status = 404
          ELSE resp'.status = 200]_vars

(***************************************************************************)
(* C27: in every reachable state of an adventure, for every i >= 1 the     *)
(* node at position i continues the node at position i-1: its              *)
(* prev_option_index is a valid index into that node's options and its     *)
(* prev_option_text is the option at that index, so the stored sequence    *)
(* is always one linear path.  (Positions are 0-based; Sequences are       *)
(* 1-based.)                                                               *)
(***************************************************************************)
Continues(node, prev) ==
    /\ node.prev_option_index # None
    /\ Get(node.prev_option_index) \in 0..(Len(prev.options) - 1)
    /\ node.prev_option_text = Some(prev.options[Get(node.prev_option_index) + 1])

C27_LinearPath ==
    \A id \in DOMAIN adventures :
        \A i \in 1..(Len(adventures[id].nodes) - 1) :
            Continues(adventures[id].nodes[i + 1], adventures[id].nodes[i])

(***************************************************************************)
(* C28: Truncate is atomic with respect to a concurrent Continue on the    *)
(* same adventure: for every interleaving of one Truncate(k) and one       *)
(* Continue (any k >= 0, also k larger than the current length) the final  *)
(* node sequence is the result of one of the two serial orders, truncate   *)
(* then append or append then truncate; an appended node is never lost     *)
(* otherwise.  (Stated for a Continue whose $push reached the document.)   *)
(***************************************************************************)
Prefix(nodes, k) == SubSeq(nodes, 1, Min(k, Len(nodes)))

Did(p, did) == calls[p].op = "done" /\ calls[p].did = did /\ calls[p].status = 200

C28_TruncateAtomic ==
    \A p, q \in Procs :
        (/\ Did(p, "truncate") /\ calls[p].outcome = "set"
         /\ Did(q, "continue") /\ calls[q].outcome = "pushed")
        => LET k == calls[p].args.node_index
               node == calls[q].args.node
           IN  /\ RaceAdventure \in DOMAIN adventures
               /\ adventures[RaceAdventure].nodes \in
                    {Append(Prefix(RaceStart, k), node),
                     Prefix(Append(RaceStart, node), k)}

(***************************************************************************)
(* C29: whenever a Continue call returns a success response, exactly one   *)
(* new node has been appended to the adventure by that call; also when     *)
(* the adventure is concurrently deleted or truncated between the call's   *)
(* validation and its append, and when the store's append operation fails  *)
(* (the call must then report an error).                                   *)
(***************************************************************************)
C29_SuccessMeansAppended ==
    [][\A p \in Procs :
         (/\ calls[p].op = "continue"
          /\ calls'[p].op = "done"
          /\ calls'[p].status = 200)
         => /\ RaceAdventure \in DOMAIN adventures
            /\ RaceAdventure \in DOMAIN adventures'
            /\ adventures'[RaceAdventure].nodes =
                 Append(adventures[RaceAdventure].nodes, calls'[p].args.node)]_vars

(***************************************************************************)
(* C30: two concurrent Continue calls against the same adventure and the   *)
(* same start_from_node index can both pass validation and both append:    *)
(* the node sequence then grows by two nodes and both callers receive the  *)
(* same node_index; no interleaving of two successful Continue calls       *)
(* leaves the sequence grown by fewer than two nodes.                      *)
(***************************************************************************)
C30_TwoContinuesGrowByTwo ==
    (Did("p1", "continue") /\ Did("p2", "continue"))
    => /\ RaceAdventure \in DOMAIN adventures
       /\ Len(adventures[RaceAdventure].nodes) = Len(RaceStart) + 2
       /\ calls["p1"].args.start_from_node_id = calls["p2"].args.start_from_node_id
            => calls["p1"].args.node_index = calls["p2"].args.node_index

(***************************************************************************)
(* C31: a user record with role admin comes into existence only through    *)
(* the admin create-user endpoint called by a user who is an admin         *)
(* already: from a user collection with no admin, no request of an         *)
(* unauthenticated or non-admin caller (public registration included)      *)
(* produces a user for whom the admin check succeeds.                      *)
(***************************************************************************)
C31_AdminOnlyByAdmin ==
    [][\A u \in UserIds \cup RegistrationIds :
         (is_user_admin(users', u) /\ ~is_user_admin(users, u))
         => /\ resp'.op = "create_user_admin"
            /\ is_user_admin(users, resp'.token.sub)]_vars

(***************************************************************************)
(* C32: an identity that is neither the owner of an adventure nor an       *)
(* admin never deletes it and never truncates its node sequence, also      *)
(* when the adventure is public: every such Delete or Truncate request is  *)
(* rejected and leaves the adventure unchanged.                            *)
(***************************************************************************)
Outsider(I, a) == adventures[a].owner_id # I /\ ~IsAdmin(I)

C32_OutsiderNeverRemoves ==
    [][(/\ resp'.op \in {"delete", "truncate"}
        /\ resp'.token.ok
        /\ Exists(resp'.adventure_id)
        /\ Outsider(resp'.token.sub, resp'.adventure_id))
       => /\ resp'.status \in {401, 403}
          /\ adventures' = adventures]_vars

C32_Witness ==
    /\ resp.op \in {"delete", "truncate"}
    /\ resp.token.ok
    /\ Exists(Target)
    /\ adventures[Target].is_public
    /\ Outsider(Caller, Target)
    /\ resp.status = 401

(***************************************************************************)
(* C33: the admin delete-user path never removes the last admin: when the  *)
(* user collection holds an admin, it still holds one after any sequence   *)
(* and interleaving of admin delete-user requests, each checked for the    *)
(* admin role and for self-deletion before the removal.                    *)
(***************************************************************************)
Admins == {u \in DOMAIN users : is_user_admin(users, u)}

NodesRead(call) ==
    [i \in 1 .. Len(call.original_adventure.nodes) |->
       cloned_node(call.original_adventure.nodes[i])]

IsPrefixOf(short, long) ==
    Len(short) <= Len(long) /\ short = SubSeq(long, 1, Len(short))

ClonePrefix ==
    \A p \in Procs :
        LET call == IF calls[p].op = "crashed" THEN calls[p].was ELSE calls[p]
        IN  (call.op = "clone" /\ call.pc = "update_adventure_nodes")
            => /\ call.inserted_id \in DOMAIN adventures
               /\ IsPrefixOf(adventures[call.inserted_id].nodes, NodesRead(call))

C34_ClonePrefixOfSourceAsRead ==
    [][/\ ClonePrefix'
       /\ \A p \in Procs :
            (calls[p].op = "clone" /\ calls'[p].op = "done")
            => \E B \in DOMAIN adventures' \ {RaceAdventure} :
                 /\ adventures'[B].clone_of = Some(RaceAdventure)
                 /\ adventures'[B].nodes = NodesRead(calls[p])]_vars

(***************************************************************************)
(* C35: once the node sequence of an adventure is empty (after Truncate    *)
(* with node_index = 0) it stays empty until the adventure is deleted:     *)
(* every later Continue on it fails range validation, whatever its         *)
(* start_from_node and selected_option, and no other operation adds a      *)
(* node.                                                                   *)
(***************************************************************************)
Emptied(a) == a \in DOMAIN adventures /\ adventures[a].nodes = << >>

ContinueArrives(p) ==
    /\ calls[p] = Idle
    /\ \/ calls'[p].op = "continue"
       \/ calls'[p].op = "done" /\ calls'[p].did = "continue"

ContinueRefusedOnEmpty ==
    \A p \in Procs :
        (Emptied(RaceAdventure) /\ ContinueArrives(p))
        => /\ calls'[p].op = "done"
           /\ calls'[p].status = 400
           /\ adventures' = adventures

C35_EmptyStaysEmpty ==
    [][/\ (Emptied(RaceAdventure) /\ RaceAdventure \in DOMAIN adventures')
          => adventures'[RaceAdventure].nodes = << >>
       /\ ContinueRefusedOnEmpty]_vars

(***************************************************************************)
(* C36: verifying a signed token depends on the token only, never on the   *)
(* user collection: a valid unexpired token still resolves to the same     *)
(* user id after that user's record has been deleted, and its bearer can   *)
(* still start adventures and access the adventures whose owner_id is      *)
(* that id.                                                                *)
(***************************************************************************)
RecordDeleted == resp.token.ok /\ Caller \in DeletedUsers /\ Caller \notin DOMAIN users

AccessesOwn ==
    (resp.op = "nodes" /\ Exists(Target) /\ adventures[Target].owner_id = Caller)
    => /\ resp.status = 200
       /\ resp.body.nodes = adventures[Target].nodes

StartsOwn ==
    resp.op = "start"
    => \/ resp.body.generator = "failed"
       \/ /\ resp.status = 200
          /\ Exists(resp.body.adventure_id)
          /\ adventures[resp.body.adventure_id].owner_id = Caller

C36_TokenOutlivesUser == RecordDeleted => (AccessesOwn /\ StartsOwn)

(***************************************************************************)
(* C37: a successful API-key verification sets the key's last_used to the  *)
(* current time, and when that update cannot be persisted the              *)
(* verification still succeeds and returns the key info; a failed          *)
(* verification (bad format, not found, inactive, expired) changes no      *)
(* field of any key record.                                                *)
(***************************************************************************)
Verifiable(api_key) ==
    /\ api_key.prefix = "ak_"
    /\ \E k \in Matching(api_key) :
         /\ api_keys[k].is_active
         /\ api_keys[k].expires_at = None \/ Get(api_keys[k].expires_at) >= now

C37_LastUsedBestEffort ==
    [][Called("verify_api_key") =>
       IF Verifiable(Presented)
       THEN /\ resp'.body.raised = None
            /\ resp'.body.value # None
            /\ ~resp'.args.update_one_raises
                 => \A k \in Matching(Presented) : api_keys'[k].last_used = Some(now)
       ELSE /\ resp'.body.raised # None
            /\ api_keys' = api_keys]_vars

(***************************************************************************)
(* C38: cover-image attach/update changes the image bucket/key fields of   *)
(* an adventure only when a new image was both generated and uploaded:     *)
(* with an image present and force_regenerate false the generator is not   *)
(* called and the fields are unchanged; with neither a custom prompt nor   *)
(* a stored prompt the call fails with 400; when generation or upload      *)
(* fails the call fails with a server error and the fields keep their      *)
(* values.  (Stated for a request that passed the ownership check.)        *)
(***************************************************************************)
C38_CoverFieldsOnlyOnSuccess ==
    [][(resp'.op = "cover_update" /\ resp'.args # << >>) =>
       LET a == resp'.adventure_id
           args == resp'.args
           out == resp'.body
           kept == adventures' = adventures
           existing == adventures[a].image # NoImage
           no_prompt == args.custom_prompt = "" /\ adventures[a].userPrompt = ""
       IN  /\ ~kept => /\ resp'.status = 200
                       /\ out.generator = "called"
                       /\ out.dalle = "ok"
                       /\ out.uploaded \in ImageKeys
                       /\ adventures'[a].image = out.uploaded
                       /\ \A b \in DOMAIN adventures \ {a} : adventures'[b] = adventures[b]
           /\ (existing /\ ~args.force_regenerate)
                => (out.generator = "not called" /\ kept /\ resp'.status = 200)
           /\ (~(existing /\ ~args.force_regenerate) /\ no_prompt)
                => (resp'.status = 400 /\ out.generator = "not called" /\ kept)
           /\ (out.generator = "called" /\ (out.dalle = "error" \/ out.uploaded = NoImage))
                => (resp'.status = 500 /\ kept)]_vars

C38_Witness ==
    /\ resp.op = "cover_update"
    /\ resp.status = 500
    /\ resp.body.generator = "called"
    /\ resp.body.dalle = "ok"
    /\ resp.body.uploaded = NoImage
    /\ resp.args.force_regenerate
    /\ Exists(Target)
    /\ adventures[Target].image # NoImage

(***************************************************************************)
(* C39: the thumbnail cache key is a deterministic function of (source     *)
(* image key, width, height, crop anchor, quality): equal argument tuples  *)
(* give the same cache key, and two tuples that differ in any one          *)
(* argument, also two source keys that differ only in their file           *)
(* extension, give different cache keys.                                   *)
(***************************************************************************)
C39_CacheKeyInjective ==
    resp.op = "generate_thumbnail_cache_key"
    => LET key == Get(resp.body.value)
       IN  (resp.args.first = resp.args.second) <=> (key.first = key.second)
====
